---- MODULE Spec2Model ----
(***************************************************************************)
(* CutCable wizard: the install / resume / rollback state machine of       *)
(* cutcable_wizard.py (CutCableWizard) and the startup thread of           *)
(* service.py (CutCableWizardService), over a shared file system that      *)
(* survives the host restart.                                              *)
(*                                                                         *)
(* Threads: "ui" is the interactive entry point (default.py ->             *)
(* show_main_menu), "svc" is the service's startup_tasks thread.  Each     *)
(* step of a thread is one externally visible operation of the code (a     *)
(* file-system call, a dialog, a host builtin); threads interleave between *)
(* steps.  xbmcvfs.exists(p) is modelled as "p exists".  Per host start    *)
(* the interactive entry point is launched at most once and at most one    *)
(* build is selected.                                                      *)
(***************************************************************************)
EXTENDS Integers, Sequences, FiniteSets, TLC

\* ---------------------------------------------------------------- bounds
MaxTime == 2        \* time.time() takes the values 1..MaxTime
MaxBoots == 2       \* host process starts explored

\* ---------------------------------------------------------------- data
Threads == {"ui", "svc"}
Times == 1..MaxTime

\* The five backup_items / restore_items, in list order.
ItemOrder == <<"addon_data", "Database", "sources.xml", "favourites.xml", "advancedsettings.xml">>
Items == {ItemOrder[i] : i \in 1..Len(ItemOrder)}
\* os.path.isdir of a live or snapshot item that exists.
IsDir(item) == item \in {"addon_data", "Database"}
\* Paths below special://home that a payload may write: the backup items and
\* one path outside the backup set.
Paths == Items \cup {"addons"}
\* os.walk order of the payload files.
WalkOrder == <<"sources.xml", "addons">>

\* Build names are character sequences; <<>> is Python's None.
NoneV == <<>>
NameA == <<"C", "-", "V", "1", ".", "1">>
NameB == <<"c", "-", "v", "1", ".", "2", ".", "0">>
\* The catalog's builds, and the build a previous session may have installed.
Catalog == <<NameB>>
Previous == NameA
\* Content tag of a file: "absent", "orig" (before any install) or the tag of
\* the build whose payload wrote it.
Tag(name) == IF name = NameA THEN "A" ELSE "B"
\* Entries of the downloaded archive of every build.
ArchiveEntries == {WalkOrder[i] : i \in 1..Len(WalkOrder)}

Digits == {"0", "1", "2", "3", "4", "5", "6", "7", "8", "9"}
Lower(c) == IF c = "C" THEN "c" ELSE IF c = "V" THEN "v" ELSE c
LowerSeq(s) == [i \in 1..Len(s) |-> Lower(s[i])]

RECURSIVE DigitRun(_, _)
\* Length of the maximal run of digits of s starting at position i (\d+).
DigitRun(s, i) ==
    IF i <= Len(s) /\ s[i] \in Digits THEN 1 + DigitRun(s, i + 1) ELSE 0

\* End position of a match of v(\d+\.\d+(?:\.\d+)?) starting at i, 0 if none.
MatchEnd(s, i) ==
    IF i > Len(s) \/ s[i] # "v" THEN 0
    ELSE LET d1 == DigitRun(s, i + 1)
             dot1 == i + 1 + d1
             d2 == IF dot1 <= Len(s) /\ s[dot1] = "." THEN DigitRun(s, dot1 + 1) ELSE 0
             end2 == dot1 + d2
             d3 == IF end2 + 1 <= Len(s) /\ s[end2 + 1] = "."
                   THEN DigitRun(s, end2 + 2) ELSE 0
         IN  IF d1 = 0 \/ d2 = 0 THEN 0
             ELSE IF d3 > 0 THEN end2 + 1 + d3 ELSE end2

\* extract_version_from_name: group 1 of the leftmost match in the lowercased
\* name, "1.0" when there is none (or the name is None).
extract_version_from_name(build_name) ==
    LET s == LowerSeq(build_name)
        starts == {i \in 1..Len(s) : MatchEnd(s, i) > 0}
    IN  IF starts = {} THEN <<"1", ".", "0">>
        ELSE LET i == CHOOSE k \in starts : \A j \in starts : k <= j
             IN  SubSeq(s, i + 1, MatchEnd(s, i))

\* ---------------------------------------------------------------- compare_versions
\* Value of a decimal digit character.
DigitValue(c) ==
    CASE c = "0" -> 0 [] c = "1" -> 1 [] c = "2" -> 2 [] c = "3" -> 3 [] c = "4" -> 4
      [] c = "5" -> 5 [] c = "6" -> 6 [] c = "7" -> 7 [] c = "8" -> 8 [] OTHER -> 9

RECURSIVE SplitDots(_, _, _)
\* version.split('.'): the segments of s from position i on, cur being the
\* segment collected so far.
SplitDots(s, i, cur) ==
    IF i > Len(s) THEN <<cur>>
    ELSE IF s[i] = "." THEN <<cur>> \o SplitDots(s, i + 1, <<>>)
    ELSE SplitDots(s, i + 1, Append(cur, s[i]))

RECURSIVE IntOf(_, _, _)
\* Value of the decimal digits x[i..] after acc.
IntOf(x, i, acc) ==
    IF i > Len(x) THEN acc ELSE IntOf(x, i + 1, 10 * acc + DigitValue(x[i]))

\* int(x) takes a sign before the digits.
Signed(x) == Len(x) >= 1 /\ x[1] \in {"-", "+"}
Unsigned(x) == IF Signed(x) THEN Tail(x) ELSE x

\* int(x) raises ValueError: no digits, or a character that is no digit.
IntRaises(x) ==
    Unsigned(x) = <<>> \/ \E i \in 1..Len(Unsigned(x)) : Unsigned(x)[i] \notin Digits

\* int(x)
IntValue(x) ==
    IF Signed(x) /\ x[1] = "-" THEN 0 - IntOf(Unsigned(x), 1, 0)
    ELSE IntOf(Unsigned(x), 1, 0)

\* [int(x) for x in version.split('.')]
Parts(version) ==
    LET segs == SplitDots(version, 1, <<>>)
    IN  [i \in 1..Len(segs) |-> IntValue(segs[i])]

\* Variant of the failure test that lets a malformed operand through.
PartsNeverRaise(version) == FALSE

\* Whether building the parts raises: None has no split, a segment may not parse.
PartsRaise(version) ==
    LET segs == SplitDots(version, 1, <<>>)
    IN  \E i \in 1..Len(segs) : IntRaises(segs[i])

\* Variant of the padding that leaves the parts as they are.
Unpadded(parts, max_len) == parts

\* v_parts.extend([0] * (max_len - len(v_parts)))
Padded(parts, max_len) ==
    [i \in 1..max_len |-> IF i <= Len(parts) THEN parts[i] ELSE 0]

RECURSIVE ZipCompare(_, _, _)
\* for v1, v2 in zip(v1_parts, v2_parts): the first differing pair decides.
ZipCompare(a, b, i) ==
    IF i > Len(a) \/ i > Len(b) THEN 0
    ELSE IF a[i] > b[i] THEN 1
    ELSE IF a[i] < b[i] THEN -1
    ELSE ZipCompare(a, b, i + 1)

\* compare_versions(version1, version2): 0 on any exception.
compare_versions(version1, version2) ==
    IF PartsRaise(version1) \/ PartsRaise(version2) THEN 0
    ELSE LET v1 == Parts(version1)
             v2 == Parts(version2)
             max_len == IF Len(v1) > Len(v2) THEN Len(v1) ELSE Len(v2)
         IN  ZipCompare(Padded(v1, max_len), Padded(v2, max_len), 1)


\* ---------------------------------------------------------------- state
VARIABLES
    now,              \* int(time.time())
    boots,            \* host process starts so far
    launched,         \* the interactive entry point was launched since the host start
    selected,         \* a build was selected and confirmed since the host start
    restartRequested, \* RestartApp was issued and the host has not restarted yet
    live,             \* live tree: [Paths -> content tag]
    backups,          \* backup_path: [Times -> [exists, items]]
    tempZip,          \* temp_path/build_<t>.zip: [Times -> tag or "absent"]
    tempExtract,      \* temp_path/extract_<t>: [Times -> [exists, files]]
    markerFile,       \* install_marker.json: <<>> or <<record>>
    buildInfoFile,    \* current_build.json: <<>> or <<record>>
    settingsFile,     \* wizard_settings.json: <<>> or <<record>>
    pc,               \* [Threads -> control point]
    loc,              \* [Threads -> locals of the running handler]
    mem,              \* [Threads -> in-memory build_info and settings of its wizard]
    markerPre,        \* history: live items when the marker's install took its backup
    sched,            \* the service's scheduler: main_service_loop and its threads
    cv,               \* a call of compare_versions: its operands and its result
    pr,               \* the snapshots under backup_path of the pruning runs
    dl,               \* a call of download_file: the stream and the destination
    call              \* a call of another function of the wizard run on its own

fsVars == <<live, backups, tempZip, tempExtract, markerFile, buildInfoFile, settingsFile>>
mainVars == <<now, boots, launched, selected, restartRequested, live, backups, tempZip,
              tempExtract, markerFile, buildInfoFile, settingsFile, pc, loc, mem, markerPre>>
sideVars == <<sched, cv, pr, dl, call>>
vars == <<mainVars, sideVars>>

NoFiles == [p \in Paths |-> "absent"]
NoItems == [i \in Items |-> "absent"]
NoDir == [exists |-> FALSE, files |-> NoFiles]
NoSnapshot == [exists |-> FALSE, items |-> NoItems]
BadMarker == [ok |-> FALSE, temp_extract |-> 0, temp_zip |-> 0, build_name |-> NoneV,
              backup_name |-> NoneV, install_time |-> 0]

\* default_info of load_build_info / default_settings of load_settings.
DefaultInfo == [installed_build |-> NoneV, version |-> NoneV, last_backup |-> NoneV]
DefaultSettings == [current_build |-> NoneV, auto_updates |-> TRUE,
                    first_run_complete |-> FALSE]

\* load_build_info / load_settings: the file merged over the defaults.
load_build_info == IF buildInfoFile = <<>> THEN DefaultInfo ELSE buildInfoFile[1]
load_settings == IF settingsFile = <<>> THEN DefaultSettings ELSE settingsFile[1]

NoLoc == [build |-> NoneV, backup_name |-> NoneV, temp_zip |-> 0, temp_extract |-> 0,
          data |-> BadMarker, files |-> <<>>, idx |-> 0, pre |-> NoItems,
          did |-> {}, outcome |-> "none"]

LiveItems == [i \in Items |-> live[i]]

\* Variant of save_build_info that records nothing.
keep_build_info(info, build_name) == info

\* Variant of save_build_info that records the name with the default version.
save_build_name_only(info, build_name) ==
    [info EXCEPT !.installed_build = build_name, !.version = <<"1", ".", "0">>]

\* save_build_info(build_name): updates the wizard's in-memory record and
\* writes it to current_build.json.
save_build_info(info, build_name) ==
    [info EXCEPT !.installed_build = build_name,
                 !.version = extract_version_from_name(build_name)]

\* The live tree before any install: advancedsettings.xml does not exist.
FreshLive == [p \in Paths |-> IF p = "advancedsettings.xml" THEN "absent" ELSE "orig"]

\* Init: no install in flight; either nothing was ever installed, or a
\* previous session installed Previous and completed the first-run setup.

MainInit ==
    /\ now = 0
    /\ boots = 1
    /\ launched = FALSE
    /\ selected = FALSE
    /\ restartRequested = FALSE
    /\ backups = [t \in Times |-> NoSnapshot]
    /\ tempZip = [t \in Times |-> "absent"]
    /\ tempExtract = [t \in Times |-> NoDir]
    /\ markerFile = <<>>
    /\ \/ /\ live = FreshLive
          /\ buildInfoFile = <<>>
          /\ settingsFile = <<>>
       \/ /\ live = [p \in Paths |-> IF p \in ArchiveEntries THEN Tag(Previous) ELSE FreshLive[p]]
          /\ buildInfoFile = <<save_build_info(DefaultInfo, Previous)>>
          /\ settingsFile = <<[DefaultSettings EXCEPT !.current_build = Previous,
                                                      !.first_run_complete = TRUE]>>
    /\ pc = [t \in Threads |-> IF t = "svc" THEN "sv_wait" ELSE "off"]
    /\ loc = [t \in Threads |-> NoLoc]
    /\ mem = [t \in Threads |-> [build_info |-> DefaultInfo, settings |-> DefaultSettings]]
    /\ markerPre = NoItems

\* The parts of the state the install model does not use.
\* The other side variables while one function is run on its own.
SideIdleBut == sched = <<>> /\ cv = <<>> /\ pr = <<>> /\ dl = <<>>
SideIdle == SideIdleBut /\ call = <<>>

Init == MainInit /\ SideIdle

\* ---------------------------------------------------------------- helpers
Set(f, t, field, v) == [f EXCEPT ![t] = [@ EXCEPT ![field] = v]]
Did(l, what) == [l EXCEPT !.did = @ \cup {what}]
Say(l, what) == [l EXCEPT !.did = @ \cup {what}]
\* The handler returns: its locals go, what it did and how it ended stay for
\* the record.
Return(l, outcome) ==
    [NoLoc EXCEPT !.did = l.did, !.outcome = outcome, !.build = l.build, !.data = l.data]
\* int(time.time()) names the snapshot, the archive, the extraction directory
\* and the marker's install_time.  The names live in different directories, so
\* only the order of installs matters: the clock has advanced when
\* install_build takes its backup, and the later reads of the same install
\* fall in that second.
NextSecond(t) == t = now + 1 /\ t \in Times /\ now' = t
SameSecond(t) == t = now /\ now' = now

keep_count == 3

\* Variant of the pruning that removes nothing.
keep_all_backups(bk, keep) == bk

\* cleanup_old_backups: the keep newest snapshots stay, the others are removed.
cleanup_old_backups(bk, keep) ==
    [t \in DOMAIN bk |->
        IF bk[t].exists /\ Cardinality({u \in DOMAIN bk : bk[u].exists /\ u > t}) >= keep
        THEN NoSnapshot ELSE bk[t]]

RECURSIVE BackupLoop(_, _, _, _)
\* The item loop of create_backup from position i: progress.iscanceled() first
\* answers true at position cancelAt.  shutil.copytree(src, dst,
\* ignore_errors=True) raises TypeError (copytree has no such parameter), so a
\* directory item that exists makes the call raise.
BackupLoop(items, liveItems, i, cancelAt) ==
    IF i > Len(ItemOrder) \/ i = cancelAt THEN [items |-> items, raised |-> FALSE]
    ELSE LET it == ItemOrder[i]
         IN  IF liveItems[it] = "absent"
             THEN BackupLoop(items, liveItems, i + 1, cancelAt)
             ELSE IF IsDir(it) THEN [items |-> items, raised |-> TRUE]
             ELSE BackupLoop([items EXCEPT ![it] = liveItems[it]], liveItems, i + 1, cancelAt)

\* create_backup as called at time t: the snapshot directory is created, the
\* items are copied, and on normal completion old snapshots are pruned and the
\* name returned; on an exception None is returned and nothing is pruned.
create_backup(bk, liveItems, t, cancelAt) ==
    LET dir == IF bk[t].exists THEN bk[t].items ELSE NoItems
        run == BackupLoop(dir, liveItems, 1, cancelAt)
        made == [bk EXCEPT ![t] = [exists |-> TRUE, items |-> run.items]]
    IN  IF run.raised THEN [backups |-> made, name |-> NoneV]
        ELSE [backups |-> cleanup_old_backups(made, keep_count), name |-> <<t>>]

RECURSIVE RestoreLoop(_, _, _, _, _)
\* The item loop of restore_backup: a backed-up item replaces the live path,
\* which is removed first; copytree raises as in create_backup.
RestoreLoop(lv, snap, i, cancelAt, wiped) ==
    IF i > Len(ItemOrder) \/ i = cancelAt THEN [live |-> lv, ok |-> TRUE, wiped |-> wiped]
    ELSE LET it == ItemOrder[i]
         IN  IF snap[it] = "absent" \/ wiped
             THEN RestoreLoop(lv, snap, i + 1, cancelAt, wiped)
             ELSE IF IsDir(it)
             THEN [live |-> [lv EXCEPT ![it] = "absent"], ok |-> FALSE,
                   wiped |-> wiped \/ it = "addon_data"]
             ELSE RestoreLoop([lv EXCEPT ![it] = snap[it]], snap, i + 1, cancelAt, wiped)

\* restore_backup(backup_name): False without a name or without the snapshot
\* directory, else the loop's result.
restore_backup(lv, bk, name, cancelAt) ==
    IF name = NoneV \/ ~bk[name[1]].exists THEN [live |-> lv, ok |-> FALSE, wiped |-> FALSE]
    ELSE RestoreLoop(lv, bk[name[1]].items, 1, cancelAt, FALSE)

\* Variant of cleanup_temp_files that removes nothing.
leave_temp_files(tz, te, z, e) == [zip |-> tz, dir |-> te]

\* cleanup_temp_files([temp_zip, temp_extract]) of the wizard: both paths are
\* removed when they exist.
cleanup_temp_files(tz, te, z, e) ==
    [zip |-> IF z \in Times THEN [tz EXCEPT ![z] = "absent"] ELSE tz,
     dir |-> IF e \in Times THEN [te EXCEPT ![e] = NoDir] ELSE te]

\* ---------------------------------------------------------------- interactive entry point
\* default.py: CutCableWizard() loads settings and build info, then show_main_menu.
UiLaunch ==
    /\ pc["ui"] = "off"
    /\ ~launched
    /\ launched' = TRUE
    /\ mem' = [mem EXCEPT !["ui"] = [build_info |-> load_build_info, settings |-> load_settings]]
    /\ pc' = [pc EXCEPT !["ui"] = "main"]
    /\ loc' = [loc EXCEPT !["ui"] = NoLoc]
    /\ UNCHANGED <<sideVars, now, boots, selected, restartRequested, fsVars, markerPre>>

\* Variant of show_main_menu that does not look for a marker.
UiMainMenuFirst ==
    /\ pc["ui"] = "main"
    /\ \E connected \in BOOLEAN :
          pc' = [pc EXCEPT !["ui"] = IF connected THEN "menu" ELSE "off"]
    /\ UNCHANGED <<sideVars, now, boots, launched, selected, restartRequested, fsVars, loc, mem, markerPre>>

\* show_main_menu: a pending marker goes to complete_installation and returns;
\* otherwise the connectivity check leads to the menu or ends the session.
UiMain ==
    /\ pc["ui"] = "main"
    /\ IF markerFile # <<>>
       THEN pc' = [pc EXCEPT !["ui"] = "ci_read"]
       ELSE \E connected \in BOOLEAN :
               pc' = [pc EXCEPT !["ui"] = IF connected THEN "menu" ELSE "off"]
    /\ UNCHANGED <<sideVars, now, boots, launched, selected, restartRequested, fsVars, loc, mem, markerPre>>

\* Main menu, cancelled.
UiExit ==
    /\ pc["ui"] = "menu"
    /\ pc' = [pc EXCEPT !["ui"] = "off"]
    /\ UNCHANGED <<sideVars, now, boots, launched, selected, restartRequested, fsVars, loc, mem, markerPre>>

\* show_build_menu: the catalog was fetched, a build selected and confirmed.
UiSelectBuild ==
    /\ pc["ui"] = "menu"
    /\ ~selected
    /\ selected' = TRUE
    /\ \E b \in 1..Len(Catalog) :
          loc' = [loc EXCEPT !["ui"] = [NoLoc EXCEPT !.build = Catalog[b]]]
    /\ pc' = [pc EXCEPT !["ui"] = "ib_conn"]
    /\ UNCHANGED <<sideVars, now, boots, launched, restartRequested, fsVars, mem, markerPre>>

\* clean_temp_files_manual, confirmed: every build_* and extract_* under temp
\* is removed.
UiCleanTemp ==
    /\ pc["ui"] = "menu"
    /\ tempZip' = [t \in Times |-> "absent"]
    /\ tempExtract' = [t \in Times |-> NoDir]
    /\ UNCHANGED <<sideVars, now, boots, launched, selected, restartRequested, live, backups, markerFile,
                   buildInfoFile, settingsFile, pc, loc, mem, markerPre>>

\* ---------------------------------------------------------------- install_build
\* Where install_build / complete_installation return to.
Ret(p) == IF p = "ui" THEN "menu" ELSE "sv_idle"
CiRet(p) == IF p = "ui" THEN "off" ELSE "sv_notify"

Abort(l, msg) == Return(Say(l, msg), "aborted")

\* check_connectivity fails: dialog, return False.
IbConnectivity(p) ==
    /\ pc[p] = "ib_conn"
    /\ \E connected \in BOOLEAN :
          IF connected
          THEN pc' = [pc EXCEPT ![p] = "ib_backup"] /\ loc' = loc
          ELSE /\ pc' = [pc EXCEPT ![p] = Ret(p)]
               /\ loc' = [loc EXCEPT ![p] = Abort(@, "Connection Error")]
    /\ UNCHANGED <<sideVars, now, boots, launched, selected, restartRequested, fsVars, mem, markerPre>>

\* backup_name = self.create_backup()
IbBackup(p) ==
    /\ pc[p] = "ib_backup"
    /\ \E t \in Times, cancelAt \in 1..(Len(ItemOrder) + 1) :
          LET r == create_backup(backups, LiveItems, t, cancelAt)
          IN  /\ NextSecond(t)
              /\ backups' = r.backups
              /\ loc' = [loc EXCEPT ![p] = [Did(@, "backup") EXCEPT !.backup_name = r.name,
                                                                 !.pre = LiveItems]]
              /\ mem' = IF r.name = NoneV THEN mem
                        ELSE [mem EXCEPT ![p].build_info.last_backup = r.name]
              /\ pc' = [pc EXCEPT ![p] = IF r.name = NoneV THEN "ib_ask" ELSE "ib_dl"]
    /\ UNCHANGED <<sideVars, boots, launched, selected, restartRequested, live, tempZip, tempExtract,
                   markerFile, buildInfoFile, settingsFile, markerPre>>

\* "Backup Failed ... Continue with installation?"
IbAskContinue(p) ==
    /\ pc[p] = "ib_ask"
    /\ \E yes \in BOOLEAN :
          IF yes
          THEN /\ pc' = [pc EXCEPT ![p] = "ib_dl"]
               /\ loc' = [loc EXCEPT ![p] = Say(@, "Backup Failed")]
          ELSE /\ pc' = [pc EXCEPT ![p] = Ret(p)]
               /\ loc' = [loc EXCEPT ![p] = Abort(@, "Backup Failed")]
    /\ UNCHANGED <<sideVars, now, boots, launched, selected, restartRequested, fsVars, mem, markerPre>>

\* temp_zip = build_<now>.zip; download_file leaves the whole archive at the
\* destination or, on cancellation or an error, removes the destination.
IbDownload(p) ==
    /\ pc[p] = "ib_dl"
    /\ \E t \in Times, done \in BOOLEAN :
          /\ SameSecond(t)
          /\ tempZip' = [tempZip EXCEPT ![t] = IF done THEN Tag(loc[p].build) ELSE "absent"]
          /\ IF done
             THEN /\ pc' = [pc EXCEPT ![p] = "ib_ex"]
                  /\ loc' = [loc EXCEPT ![p] = [Did(@, "download") EXCEPT !.temp_zip = t]]
             ELSE /\ pc' = [pc EXCEPT ![p] = Ret(p)]
                  /\ loc' = [loc EXCEPT ![p] = Abort(Did(@, "download"), "Download Failed")]
    /\ UNCHANGED <<sideVars, boots, launched, selected, restartRequested, live, backups, tempExtract,
                   markerFile, buildInfoFile, settingsFile, mem, markerPre>>

\* Files of the extraction directory after extracting the entries got of an
\* archive with content tag.
Extracted(dir, got, tag) ==
    [exists |-> TRUE, files |-> [f \in Paths |-> IF f \in got THEN tag ELSE dir.files[f]]]

\* The entries zip_ref.extract may fail on: none, or the first one.
SkipChoices == {{}, {WalkOrder[1]}}

\* temp_extract = extract_<now>; extract_build skips entries that fail and
\* returns False when the archive cannot be opened or the user cancels.
IbExtract(p) ==
    /\ pc[p] = "ib_ex"
    /\ \E t \in Times, done \in BOOLEAN, skipped \in SkipChoices :
          LET z == loc[p].temp_zip
              opened == tempZip[z] # "absent"
          IN  /\ SameSecond(t)
              /\ IF done /\ opened
                 THEN /\ tempExtract' = [tempExtract EXCEPT
                                            ![t] = Extracted(@, ArchiveEntries \ skipped, tempZip[z])]
                      /\ tempZip' = tempZip
                      /\ pc' = [pc EXCEPT ![p] = "ib_save"]
                      /\ loc' = [loc EXCEPT ![p] = [Did(@, "extract") EXCEPT !.temp_extract = t]]
                 ELSE /\ LET made == [tempExtract EXCEPT ![t].exists = TRUE]
                              c == cleanup_temp_files(tempZip, made, z, t)
                          IN  tempZip' = c.zip /\ tempExtract' = c.dir
                      /\ pc' = [pc EXCEPT ![p] = Ret(p)]
                      /\ loc' = [loc EXCEPT ![p] = Abort(Did(@, "extract"), "Extraction Failed")]
    /\ UNCHANGED <<sideVars, boots, launched, selected, restartRequested, live, backups,
                   markerFile, buildInfoFile, settingsFile, mem, markerPre>>

\* "Save build info before Kodi restart": save_build_info(build_name),
\* settings['current_build'] = build_name, save_settings().
IbSaveInfo(p) ==
    /\ pc[p] = "ib_save"
    /\ LET info == save_build_info(mem[p].build_info, loc[p].build)
           settings == [mem[p].settings EXCEPT !.current_build = loc[p].build]
       IN  /\ mem' = [mem EXCEPT ![p] = [build_info |-> info, settings |-> settings]]
           /\ buildInfoFile' = <<info>>
           /\ settingsFile' = <<settings>>
    /\ pc' = [pc EXCEPT ![p] = "ib_marker"]
    /\ loc' = [loc EXCEPT ![p] = Did(@, "save_info")]
    /\ UNCHANGED <<sideVars, now, boots, launched, selected, restartRequested, live, backups, tempZip,
                   tempExtract, markerFile, markerPre>>

\* The install_marker dictionary of install_build.
InstallMarker(l, t) ==
    [ok |-> TRUE, temp_extract |-> l.temp_extract, temp_zip |-> l.temp_zip,
     build_name |-> l.build, backup_name |-> l.backup_name, install_time |-> t]

\* Variant: the "Installation Ready" dialog follows whatever the write did.
AfterMarkerWriteAlways(written) == "ib_notify"

\* Where install_build continues after the marker write: on success to the
\* "Installation Ready" dialog, on an exception to the handler that returns False.
AfterMarkerWrite(written) == IF written THEN "ib_notify" ELSE "ib_error"

\* with open(marker_file, 'w') as f: json.dump(install_marker, f).  The write
\* may raise, leaving the old file or a truncated one.
IbWriteMarker(p) ==
    /\ pc[p] = "ib_marker"
    /\ \E t \in Times, written \in BOOLEAN, truncated \in BOOLEAN :
          /\ SameSecond(t)
          /\ markerFile' = IF written THEN <<InstallMarker(loc[p], t)>>
                           ELSE IF truncated THEN <<BadMarker>> ELSE markerFile
          /\ markerPre' = IF written THEN loc[p].pre ELSE markerPre
          /\ loc' = [loc EXCEPT ![p] = IF written THEN Did(@, "marker") ELSE @]
          /\ pc' = [pc EXCEPT ![p] = AfterMarkerWrite(written)]
    /\ UNCHANGED <<sideVars, boots, launched, selected, restartRequested, live, backups, tempZip, tempExtract,
                   buildInfoFile, settingsFile, mem>>

\* except Exception: "Installation Error" dialog, return False.
IbError(p) ==
    /\ pc[p] = "ib_error"
    /\ pc' = [pc EXCEPT ![p] = Ret(p)]
    /\ loc' = [loc EXCEPT ![p] = Return(Say(@, "Installation Error"), "error")]
    /\ UNCHANGED <<sideVars, now, boots, launched, selected, restartRequested, fsVars, mem, markerPre>>

\* "Installation Ready ... Kodi will now restart" dialog.
IbNotifyRestart(p) ==
    /\ pc[p] = "ib_notify"
    /\ pc' = [pc EXCEPT ![p] = "ib_restart"]
    /\ loc' = [loc EXCEPT ![p] = Say(@, "Installation Ready")]
    /\ UNCHANGED <<sideVars, now, boots, launched, selected, restartRequested, fsVars, mem, markerPre>>

\* xbmc.executebuiltin('RestartApp'); return True.
IbRestart(p) ==
    /\ pc[p] = "ib_restart"
    /\ restartRequested' = TRUE
    /\ pc' = [pc EXCEPT ![p] = Ret(p)]
    /\ loc' = [loc EXCEPT ![p] = Return(Did(@, "restart"), "restart")]
    /\ UNCHANGED <<sideVars, now, boots, launched, selected, fsVars, mem, markerPre>>

\* ---------------------------------------------------------------- complete_installation
\* Variant of the marker removal that leaves the file in place.
KeepMarkerOr(p, next, outcome) ==
    /\ markerFile' = markerFile
    /\ pc' = [pc EXCEPT ![p] = next]
    /\ loc' = [loc EXCEPT ![p] = IF next = CiRet(p) THEN Return(@, outcome)
                                 ELSE [@ EXCEPT !.outcome = outcome]]

\* os.remove(marker_file) at control point p: FileNotFoundError goes to the
\* except handler.
RemoveMarkerOr(p, next, outcome) ==
    IF markerFile = <<>>
    THEN /\ markerFile' = markerFile
         /\ pc' = [pc EXCEPT ![p] = "ci_exc"]
         /\ loc' = [loc EXCEPT ![p].outcome = outcome]
    ELSE /\ markerFile' = <<>>
         /\ pc' = [pc EXCEPT ![p] = next]
         /\ loc' = [loc EXCEPT ![p] = IF next = CiRet(p) THEN Return(Did(@, "rm_marker"), outcome)
                                      ELSE [Did(@, "rm_marker") EXCEPT !.outcome = outcome]]

\* The marker is looked for and json.load-ed; an unreadable or incomplete
\* marker raises into the except handler.
CiRead(p) ==
    /\ pc[p] = "ci_read"
    /\ IF markerFile = <<>>
       THEN /\ pc' = [pc EXCEPT ![p] = CiRet(p)]
            /\ loc' = [loc EXCEPT ![p] = [NoLoc EXCEPT !.outcome = "no_marker"]]
       ELSE IF ~markerFile[1].ok
       THEN /\ pc' = [pc EXCEPT ![p] = "ci_exc"]
            /\ loc' = [loc EXCEPT ![p] = Did(@, "found")]
       ELSE /\ pc' = [pc EXCEPT ![p] = "ci_check"]
            /\ loc' = [loc EXCEPT ![p] = [Did(@, "found") EXCEPT !.data = markerFile[1]]]
    /\ UNCHANGED <<sideVars, now, boots, launched, selected, restartRequested, fsVars, mem, markerPre>>

\* os.walk(source_dir): the payload files, in walk order.
WalkFiles(dir) ==
    SelectSeq(WalkOrder, LAMBDA f : dir.files[f] # "absent")

\* Variant: the payload directory is taken to exist.
PayloadAssumed(te, e) == TRUE

\* xbmcvfs.exists(temp_extract)
PayloadExists(te, e) == te[e].exists

\* if not xbmcvfs.exists(temp_extract): os.remove(marker_file); return.
\* Otherwise copy_build_files starts by listing the payload.
CiCheck(p) ==
    /\ pc[p] = "ci_check"
    /\ LET e == loc[p].data.temp_extract
       IN  IF ~PayloadExists(tempExtract, e)
           THEN RemoveMarkerOr(p, CiRet(p), "stale")
           ELSE /\ pc' = [pc EXCEPT ![p] = "ci_copy"]
                /\ loc' = [loc EXCEPT ![p] = [@ EXCEPT !.files = WalkFiles(tempExtract[e]), !.idx = 1]]
                /\ markerFile' = markerFile
    /\ UNCHANGED <<sideVars, now, boots, launched, selected, restartRequested, live, backups, tempZip,
                   tempExtract, buildInfoFile, settingsFile, mem, markerPre>>

\* One iteration of the loop of copy_build_files(temp_extract, kodi_home):
\* cancellation and a directory-creation error return False, a file whose
\* copy2 raises is skipped, otherwise the file is written to the live tree.
CiCopy(p) ==
    /\ pc[p] = "ci_copy"
    /\ LET l == loc[p]
           e == l.data.temp_extract
       IN  IF l.idx > Len(l.files)
           THEN /\ pc' = [pc EXCEPT ![p] = "ci_cleanup"]
                /\ loc' = loc
                /\ live' = live
           ELSE \E r \in {"copy", "skip", "cancel", "oserror"} :
                   LET f == l.files[l.idx]
                       src == tempExtract[e].files[f]
                   IN  IF r \in {"cancel", "oserror"}
                       THEN /\ pc' = [pc EXCEPT ![p] = "ci_fail"]
                            /\ loc' = loc
                            /\ live' = live
                       ELSE /\ pc' = pc
                            /\ IF r = "copy" /\ src # "absent"
                               THEN /\ live' = [live EXCEPT ![f] = src]
                                    /\ loc' = [loc EXCEPT ![p] = [Did(@, "copy") EXCEPT !.idx = @ + 1]]
                               ELSE /\ live' = live
                                    /\ loc' = [loc EXCEPT ![p].idx = @ + 1]
    /\ UNCHANGED <<sideVars, now, boots, launched, selected, restartRequested, backups, tempZip, tempExtract,
                   markerFile, buildInfoFile, settingsFile, mem, markerPre>>

\* success: cleanup_temp_files([temp_zip, temp_extract])
CiCleanup(p) ==
    /\ pc[p] = "ci_cleanup"
    /\ LET c == cleanup_temp_files(tempZip, tempExtract, loc[p].data.temp_zip,
                                   loc[p].data.temp_extract)
       IN  tempZip' = c.zip /\ tempExtract' = c.dir
    /\ pc' = [pc EXCEPT ![p] = "ci_rm"]
    /\ loc' = [loc EXCEPT ![p] = Did(@, "cleanup")]
    /\ UNCHANGED <<sideVars, now, boots, launched, selected, restartRequested, live, backups,
                   markerFile, buildInfoFile, settingsFile, mem, markerPre>>

\* success: os.remove(marker_file)
CiRemoveMarker(p) ==
    /\ pc[p] = "ci_rm"
    /\ RemoveMarkerOr(p, "ci_save", loc[p].outcome)
    /\ UNCHANGED <<sideVars, now, boots, launched, selected, restartRequested, live, backups, tempZip,
                   tempExtract, buildInfoFile, settingsFile, mem, markerPre>>

\* success: save_build_info(build_name) and the "installed successfully"
\* notification; first_run_setup follows when the setup was never completed.
CiSave(p) ==
    /\ pc[p] = "ci_save"
    /\ LET info == save_build_info(mem[p].build_info, loc[p].data.build_name)
       IN  /\ mem' = [mem EXCEPT ![p].build_info = info]
           /\ buildInfoFile' = <<info>>
    /\ LET l == Say(Did(loc[p], "save_info"), "installed successfully")
           first == ~mem[p].settings.first_run_complete
       IN  /\ loc' = [loc EXCEPT ![p] = IF first THEN [l EXCEPT !.outcome = "verified"]
                                        ELSE Return(l, "verified")]
           /\ pc' = [pc EXCEPT ![p] = IF first THEN "ci_first" ELSE CiRet(p)]
    /\ UNCHANGED <<sideVars, now, boots, launched, selected, restartRequested, live, backups, tempZip,
                   tempExtract, markerFile, settingsFile, markerPre>>

\* first_run_setup: the dialogs, then first_run_complete = True and save_settings().
CiFirstRun(p) ==
    /\ pc[p] = "ci_first"
    /\ LET settings == [mem[p].settings EXCEPT !.first_run_complete = TRUE]
       IN  /\ mem' = [mem EXCEPT ![p].settings = settings]
           /\ settingsFile' = <<settings>>
    /\ pc' = [pc EXCEPT ![p] = CiRet(p)]
    /\ loc' = [loc EXCEPT ![p] = Return(Did(@, "first_run"), "verified")]
    /\ UNCHANGED <<sideVars, now, boots, launched, selected, restartRequested, live, backups, tempZip,
                   tempExtract, markerFile, buildInfoFile, markerPre>>

\* The notification complete_installation shows after a failed copy, given
\* whether a backup id was recorded and what restore_backup returned.
FailureNotice(hasBackup, restored) ==
    IF hasBackup THEN "Installation failed - backup restored" ELSE "Installation failed"

\* failure: restore_backup(backup_name) when the marker recorded one, then the
\* notification.  rmtree of the live addon_data removes what lives below it:
\* the backups, the marker and the wizard's records.
CiFail(p) ==
    /\ pc[p] = "ci_fail"
    /\ LET name == loc[p].data.backup_name
       IN  IF name # NoneV
           THEN \E cancelAt \in 1..(Len(ItemOrder) + 1) :
                   LET r == restore_backup(live, backups, name, cancelAt)
                   IN  /\ live' = r.live
                       /\ backups' = IF r.wiped THEN [t \in Times |-> NoSnapshot] ELSE backups
                       /\ markerFile' = IF r.wiped THEN <<>> ELSE markerFile
                       /\ buildInfoFile' = IF r.wiped THEN <<>> ELSE buildInfoFile
                       /\ settingsFile' = IF r.wiped THEN <<>> ELSE settingsFile
                       /\ loc' = [loc EXCEPT ![p] =
                                    [Say(Did(@, IF r.ok THEN "restore_ok" ELSE "restore_failed"),
                                         FailureNotice(TRUE, r.ok))
                                       EXCEPT !.outcome = "failed"]]
           ELSE /\ loc' = [loc EXCEPT ![p] = [Say(@, FailureNotice(FALSE, FALSE))
                                                 EXCEPT !.outcome = "failed"]]
                /\ UNCHANGED <<live, backups, markerFile, buildInfoFile, settingsFile>>
    /\ pc' = [pc EXCEPT ![p] = "ci_fail_rm"]
    /\ UNCHANGED <<sideVars, now, boots, launched, selected, restartRequested, tempZip, tempExtract, mem, markerPre>>

\* failure: os.remove(marker_file)
CiFailRemove(p) ==
    /\ pc[p] = "ci_fail_rm"
    /\ RemoveMarkerOr(p, CiRet(p), loc[p].outcome)
    /\ UNCHANGED <<sideVars, now, boots, launched, selected, restartRequested, live, backups, tempZip,
                   tempExtract, buildInfoFile, settingsFile, mem, markerPre>>

\* except Exception: if os.path.exists(marker_file): os.remove(marker_file)
CiExcept(p) ==
    /\ pc[p] = "ci_exc"
    /\ markerFile' = <<>>
    /\ pc' = [pc EXCEPT ![p] = CiRet(p)]
    /\ loc' = [loc EXCEPT ![p] = Return(Did(@, IF markerFile # <<>> THEN "rm_marker" ELSE "marker_gone"),
                                         IF @.outcome = "none" THEN "error" ELSE @.outcome)]
    /\ UNCHANGED <<sideVars, now, boots, launched, selected, restartRequested, live, backups, tempZip,
                   tempExtract, buildInfoFile, settingsFile, mem, markerPre>>

\* ---------------------------------------------------------------- service startup thread
\* startup_tasks: wait_for_kodi_ready, then initialize_wizard.
SvInit ==
    /\ pc["svc"] = "sv_wait"
    /\ mem' = [mem EXCEPT !["svc"] = [build_info |-> load_build_info, settings |-> load_settings]]
    /\ pc' = [pc EXCEPT !["svc"] = "sv_pending"]
    /\ UNCHANGED <<sideVars, now, boots, launched, selected, restartRequested, fsVars, loc, markerPre>>

\* check_pending_installation: a marker leads to complete_installation and to
\* the delayed completion notification.
SvPending ==
    /\ pc["svc"] = "sv_pending"
    /\ pc' = [pc EXCEPT !["svc"] = IF markerFile # <<>> THEN "ci_read" ELSE "sv_cleanup"]
    /\ UNCHANGED <<sideVars, now, boots, launched, selected, restartRequested, fsVars, loc, mem, markerPre>>

\* show_completion_notification (threading.Timer): "<build> installation
\* complete!" whenever the wizard's build_info names an installed build.
SvNotify ==
    /\ pc["svc"] = "sv_notify"
    /\ loc' = [loc EXCEPT !["svc"] = IF mem["svc"].build_info.installed_build # NoneV
                                     THEN Say(@, "installation complete") ELSE @]
    /\ pc' = [pc EXCEPT !["svc"] = "sv_cleanup"]
    /\ UNCHANGED <<sideVars, now, boots, launched, selected, restartRequested, fsVars, mem, markerPre>>

\* service cleanup_temp_files: every build_* and extract_* under temp is removed.
SvCleanupTemp ==
    /\ pc["svc"] = "sv_cleanup"
    /\ tempZip' = [t \in Times |-> "absent"]
    /\ tempExtract' = [t \in Times |-> NoDir]
    /\ pc' = [pc EXCEPT !["svc"] = "sv_idle"]
    /\ UNCHANGED <<sideVars, now, boots, launched, selected, restartRequested, live, backups, markerFile,
                   buildInfoFile, settingsFile, loc, mem, markerPre>>

\* ---------------------------------------------------------------- host
\* The host restarts after RestartApp: every thread ends, the files stay.
HostRestart ==
    /\ restartRequested
    /\ boots < MaxBoots
    /\ boots' = boots + 1
    /\ restartRequested' = FALSE
    /\ launched' = FALSE
    /\ selected' = FALSE
    /\ pc' = [t \in Threads |-> IF t = "svc" THEN "sv_wait" ELSE "off"]
    /\ loc' = [t \in Threads |-> NoLoc]
    /\ mem' = [t \in Threads |-> [build_info |-> DefaultInfo, settings |-> DefaultSettings]]
    /\ UNCHANGED <<sideVars, now, fsVars, markerPre>>

Install(p) ==
    \/ IbConnectivity(p) \/ IbBackup(p) \/ IbAskContinue(p) \/ IbDownload(p)
    \/ IbExtract(p) \/ IbSaveInfo(p) \/ IbWriteMarker(p) \/ IbError(p)
    \/ IbNotifyRestart(p) \/ IbRestart(p)

Complete(p) ==
    \/ CiRead(p) \/ CiCheck(p) \/ CiCopy(p) \/ CiCleanup(p) \/ CiRemoveMarker(p)
    \/ CiSave(p) \/ CiFirstRun(p) \/ CiFail(p) \/ CiFailRemove(p) \/ CiExcept(p)

Next ==
    \/ UiLaunch \/ UiMain \/ UiExit \/ UiSelectBuild \/ UiCleanTemp
    \/ SvInit \/ SvPending \/ SvNotify \/ SvCleanupTemp
    \/ HostRestart
    \/ \E p \in Threads : Install(p) \/ Complete(p)

Spec == Init /\ [][Next]_vars

\* ---------------------------------------------------------------- properties
\* Control points inside install_build and inside complete_installation.
IbPcs == {"ib_conn", "ib_backup", "ib_ask", "ib_dl", "ib_ex", "ib_save", "ib_marker",
          "ib_error", "ib_notify", "ib_restart"}
CiPcs == {"ci_read", "ci_check", "ci_copy", "ci_cleanup", "ci_rm", "ci_save", "ci_first",
          "ci_fail", "ci_fail_rm", "ci_exc"}
\* Thread p takes a step from one of the control points in from.
Steps(p, from) == pc[p] \in from /\ pc'[p] # pc[p] /\ boots' = boots

\* C1: RestartApp is requested only by a run of install_build that has
\* already written the marker, and the step that writes the marker leaves a
\* complete record in the file: all five fields, holding the run's payload
\* directory, archive, build name, backup name and the time of the write.
C1_MarkerBeforeRestart ==
    [][/\ (restartRequested' /\ ~restartRequested) =>
             \E p \in Threads : /\ Steps(p, {"ib_restart"})
                                /\ "marker" \in loc[p].did
                                /\ "Installation Ready" \in loc[p].did
       /\ \A p \in Threads :
             ("marker" \in loc'[p].did /\ "marker" \notin loc[p].did) =>
                /\ Steps(p, {"ib_marker"})
                /\ ~restartRequested'
                /\ markerFile' = <<[ok |-> TRUE,
                                    temp_extract |-> loc[p].temp_extract,
                                    temp_zip |-> loc[p].temp_zip,
                                    build_name |-> loc[p].build,
                                    backup_name |-> loc[p].backup_name,
                                    install_time |-> now]>>
                /\ loc[p].temp_extract \in Times
                /\ loc[p].temp_zip \in Times
                /\ loc[p].build # NoneV]_vars

\* A run of install_build has requested the restart and its marker is in place.
C1_Witness ==
    /\ restartRequested
    /\ markerFile # <<>> /\ markerFile[1].ok
    /\ \E p \in Threads : {"marker", "restart"} \subseteq loc[p].did

\* C2: when complete_installation has read a marker whose payload directory
\* no longer exists, its next step leaves the marker file absent and the live
\* tree and the snapshots untouched, and the run ends there (directly, or
\* through the exception handler when the file was already gone); a run that
\* ended this way has copied nothing and restored nothing.
C2_StaleMarker ==
    [][\A p \in Threads :
          /\ (Steps(p, {"ci_check"}) /\ ~tempExtract[loc[p].data.temp_extract].exists) =>
                /\ markerFile' = <<>>
                /\ live' = live
                /\ backups' = backups
                /\ pc'[p] \in {CiRet(p), "ci_exc"}
                /\ loc'[p].outcome = "stale"
          /\ (Steps(p, CiPcs) /\ loc[p].outcome = "stale") =>
                /\ live' = live
                /\ backups' = backups
                /\ pc'[p] = CiRet(p)
          /\ loc'[p].outcome = "stale" =>
                loc'[p].did \cap {"copy", "restore_ok", "restore_failed"} = {}]_vars

\* A run found the marker, found its payload gone, removed the marker and returned.
C2_Witness ==
    \E p \in Threads :
       /\ pc[p] = CiRet(p)
       /\ loc[p].outcome = "stale"
       /\ {"found", "rm_marker"} \subseteq loc[p].did
       /\ markerFile = <<>>

\* C3: every return of complete_installation after it found a marker comes
\* after a step of the run that removed the marker file or found it already
\* removed: on the stale, failure and exception paths the returning step
\* itself leaves the file absent, on the success path the removal step does.
C3_MarkerConsumed ==
    [][\A p \in Threads :
          /\ (Steps(p, CiPcs \ {"ci_read"}) /\ pc'[p] = CiRet(p)) =>
                /\ "found" \in loc'[p].did
                /\ loc'[p].did \cap {"rm_marker", "marker_gone"} # {}
                /\ pc[p] \notin {"ci_save", "ci_first"} => markerFile' = <<>>
          /\ (Steps(p, {"ci_rm"}) /\ pc'[p] = "ci_save") => markerFile' = <<>>
          /\ ("rm_marker" \in loc'[p].did /\ "rm_marker" \notin loc[p].did) =>
                markerFile # <<>> /\ markerFile' = <<>>]_vars

\* A run that raised (unreadable marker) has removed the marker and returned.
C3_Witness ==
    \E p \in Threads :
       /\ pc[p] = CiRet(p)
       /\ loc[p].outcome = "error"
       /\ {"found", "rm_marker"} \subseteq loc[p].did
       /\ markerFile = <<>>

\* C4: no step of install_build changes the live tree; and when it returns
\* after a failed connectivity check, a failed backup the user did not
\* continue from, a failed or cancelled download or a failed or cancelled
\* extraction, the run has written no marker and requested no restart, the
\* marker file and the restart flag are as the step found them, and the
\* archive and the extraction directory the run created are gone.
C4_AbortIsClean ==
    [][\A p \in Threads :
          Steps(p, IbPcs) =>
             /\ live' = live
             /\ loc'[p].outcome = "aborted" =>
                   /\ pc'[p] = Ret(p)
                   /\ loc'[p].did \cap {"marker", "restart", "save_info", "copy"} = {}
                   /\ markerFile' = markerFile
                   /\ restartRequested' = restartRequested
                   /\ buildInfoFile' = buildInfoFile
                   /\ "download" \in loc'[p].did =>
                         now \in Times /\ tempZip'[now] = "absent"
                   /\ "extract" \in loc'[p].did =>
                         now \in Times /\ ~tempExtract'[now].exists]_vars

\* An extraction failed after a completed download and install_build returned.
C4_Witness ==
    \E p \in Threads :
       /\ pc[p] = Ret(p)
       /\ loc[p].outcome = "aborted"
       /\ {"download", "extract", "Extraction Failed"} \subseteq loc[p].did
       /\ tempZip[now] = "absent" /\ ~tempExtract[now].exists

\* Thread p is inside an install coordinator sequence: in install_build, or
\* in complete_installation past the marker lookup.
Active(p) == pc[p] \in IbPcs \cup (CiPcs \ {"ci_read"})

\* C5: at most one thread is inside an install coordinator sequence
\* (install_build, or complete_installation after it found the marker) at a
\* time.
C5_OneCoordinator ==
    Cardinality({p \in Threads : Active(p)}) <= 1

\* C6: current_build.json is created or rewritten with a build only by the
\* success branch of complete_installation, after the live-tree copy of that
\* build succeeded; no other step changes the persisted build id and version.
C6_InfoOnlyOnSuccess ==
    [][(buildInfoFile' # buildInfoFile /\ buildInfoFile' # <<>>) =>
          \E p \in Threads :
             /\ Steps(p, {"ci_save"})
             /\ buildInfoFile'[1].installed_build = loc[p].data.build_name]_vars

\* C7: the step of complete_installation that follows a successful copy,
\* clean-up and marker removal leaves current_build.json naming the marker's
\* build with the version taken from its name, the marker's archive and
\* payload directory absent, the marker no longer in the marker file, and
\* the success notification shown.
C7_Verified ==
    [][\A p \in Threads :
          Steps(p, {"ci_save"}) =>
             /\ buildInfoFile' # <<>>
             /\ buildInfoFile'[1].installed_build = loc[p].data.build_name
             /\ loc[p].data.build_name = NameB =>
                   buildInfoFile'[1].version = <<"1", ".", "2", ".", "0">>
             /\ tempZip'[loc[p].data.temp_zip] = "absent"
             /\ ~tempExtract'[loc[p].data.temp_extract].exists
             /\ markerFile' = <<>> \/ markerFile'[1] # loc[p].data
             /\ {"cleanup", "rm_marker", "installed successfully"} \subseteq loc'[p].did
             /\ loc'[p].outcome = "verified"]_vars

\* A run copied the payload, recorded the build and returned; the live tree
\* holds the build's files.
C7_Witness ==
    \E p \in Threads :
       /\ pc[p] = CiRet(p)
       /\ loc[p].outcome = "verified"
       /\ {"copy", "installed successfully"} \subseteq loc[p].did
       /\ buildInfoFile # <<>> /\ buildInfoFile[1].installed_build = NameB
       /\ live["sources.xml"] = Tag(NameB)
       /\ markerFile = <<>>

\* The backup items are back to what they were when the marker's install took
\* its backup.
RolledBack == \A i \in Items : live'[i] = markerPre[i]

\* C8: in the failure branch of complete_installation, restore_backup is
\* invoked exactly when the marker recorded a backup name, it is invoked
\* before the run removes the marker, and the notification says "backup
\* restored" only when the rollback succeeded: restore_backup returned True
\* and the backup items are back to their content at backup time.
C8_RollbackReported ==
    [][\A p \in Threads :
          Steps(p, {"ci_fail"}) =>
             LET invoked == loc'[p].did \cap {"restore_ok", "restore_failed"} # {}
             IN  /\ invoked <=> loc[p].data.backup_name # NoneV
                 /\ "rm_marker" \notin loc'[p].did
                 /\ pc'[p] = "ci_fail_rm"
                 /\ "Installation failed - backup restored" \in loc'[p].did =>
                       "restore_ok" \in loc'[p].did /\ RolledBack]_vars

\* C9: when the copy fails after some files were copied, the run returns with
\* every backup item holding the content it had when the snapshot was taken,
\* and with the marker file absent.
C9_PartialCopyRolledBack ==
    [][\A p \in Threads :
          (Steps(p, {"ci_fail_rm", "ci_exc"}) /\ pc'[p] = CiRet(p)
             /\ loc'[p].outcome = "failed" /\ "copy" \in loc'[p].did) =>
                RolledBack /\ markerFile' = <<>>]_vars

\* C10: a thread that finds the marker at its start (show_main_menu, or
\* check_pending_installation of the service) goes straight to
\* complete_installation; the run keeps the marker's record as read, copies
\* only from the payload directory the marker names into the live tree, and
\* has taken no backup, downloaded nothing and extracted nothing; and the
\* first build selection after a host start happens only when no marker
\* exists.
C10_ResumeFirst ==
    [][/\ \A p \in Threads :
             /\ (Steps(p, {"main", "sv_pending"}) /\ markerFile # <<>>) => pc'[p] = "ci_read"
             /\ (Steps(p, {"ci_read"}) /\ markerFile # <<>> /\ markerFile[1].ok) =>
                   pc'[p] = "ci_check" /\ loc'[p].data = markerFile[1]
             /\ Steps(p, {"ci_check"}) => pc'[p] \in {"ci_copy", "ci_exc", CiRet(p)}
             /\ (pc[p] \in CiPcs /\ pc'[p] \in CiPcs) =>
                   (loc'[p].data = loc[p].data \/ pc[p] = "ci_read")
             /\ (pc[p] = "ci_copy" /\ pc'[p] = "ci_copy" /\ live' # live) =>
                   \E f \in Paths :
                      /\ tempExtract[loc[p].data.temp_extract].files[f] # "absent"
                      /\ live' = [live EXCEPT
                                     ![f] = tempExtract[loc[p].data.temp_extract].files[f]]
             /\ pc'[p] \in CiPcs => loc'[p].did \cap {"backup", "download", "extract"} = {}
       /\ (selected' /\ ~selected) => markerFile = <<>>]_vars

\* After the restart a thread is copying from the payload the pending marker names.
C10_Witness ==
    /\ boots > 1
    /\ markerFile # <<>>
    /\ \E p \in Threads :
          /\ pc[p] = "ci_copy"
          /\ "copy" \in loc[p].did
          /\ loc[p].data = markerFile[1]
          /\ loc[p].did \cap {"backup", "download", "extract"} = {}

\* ---------------------------------------------------------------- scheduler
\* The service process: main_service_loop, the startup_tasks thread, the
\* startup update thread and the periodic update threads.  The install of
\* the other sections is summarised here by what the scheduler sees of it: a
\* pending marker naming a build, and the installed build record.
MaxTicks == 1       \* iterations of the main service loop per process
MaxProcs == 2       \* service processes explored
MaxThreads == 1     \* periodic update threads spawned and not yet run

update_check_interval == 3600
maintenance_interval == 86400
tick_wait == 30
\* "Check once per day" of the wizard's periodic_update_check.
periodic_check_period == 86400
\* time.time() when the first service process starts.  The clock of the model
\* moves at the waits of the loop; the waits of the startup threads, of a few
\* seconds, fall within one tick.
StartTime == 100000
\* What a wait of the loop lasts: the tick, or longer when the host was
\* suspended meanwhile.
Elapsed == {tick_wait, update_check_interval}

\* "CutCable-v1.2", the catalog's latest build.
NameLatest == <<"C", "-", "v", "1", ".", "2">>

\* check_build_updates: the catalog entry named like the installed build
\* whose version (from its name) is greater than the recorded version; None
\* without an installed build, without a catalog, or without such an entry.
check_build_updates(info, catalog, fetched) ==
    IF info.installed_build = NoneV \/ ~fetched THEN NoneV
    ELSE LET hits == {i \in 1..Len(catalog) :
                        /\ catalog[i] = info.installed_build
                        /\ compare_versions(extract_version_from_name(catalog[i]),
                                            info.version) > 0}
         IN  IF hits = {} THEN NoneV
             ELSE catalog[CHOOSE i \in hits : \A j \in hits : i <= j]

\* Variant: the abort signal is not looked at.
IgnoredAbort(abort) == FALSE
\* while not self.monitor.abortRequested() / if self.monitor.waitForAbort(30)
ObservedAbort(abort) == abort
\* Variant: an exception of a task leaves the loop.
AfterTaskCrash(raised, next) == IF raised THEN "ended" ELSE next
\* Where the loop goes after a task whose exception was logged and swallowed.
AfterTask(raised, next) == next

\* A new service process: CutCableWizardService.__init__ and the start of
\* main_service_loop, over what persists in the settings and record files.
NewProcess(clock, procs, auto, settings_last, info, marker, lastReal, failed) ==
    [clock |-> clock, ticks |-> 0, procs |-> procs, abort |-> FALSE,
     loop |-> "head", start |-> "ready_wait", upd |-> "none", per |-> 0, wizard |-> FALSE,
     last_update_check |-> 0, last_maintenance |-> 0,
     auto_updates |-> auto, settings_last |-> settings_last,
     info |-> info, marker |-> marker, catalog |-> <<NameLatest>>,
     lastReal |-> lastReal, nStartup |-> 0,
     raised |-> FALSE, failed |-> failed]

\* The inputs of the scheduler runs: auto-update on or off, the persisted
\* time of the last periodic check, the installed record, a pending marker.
SchedInit ==
    /\ MainInit /\ buildInfoFile = <<>>
    /\ cv = <<>> /\ pr = <<>> /\ dl = <<>> /\ call = <<>>
    /\ \E auto \in BOOLEAN, sl \in {0, StartTime},
          inst \in {NoneV, NameA, NameLatest}, marker \in {NoneV, NameLatest} :
          sched = NewProcess(StartTime, 1, auto, sl,
                             IF inst = NoneV THEN DefaultInfo
                             ELSE save_build_info(DefaultInfo, inst),
                             marker, -1, FALSE)

SchedStep(new) == sched' = new /\ UNCHANGED <<mainVars, cv, pr, dl, call>>

\* A real update check starts now: history of the checks.
RealCheck(sc) == [sc EXCEPT !.lastReal = sc.clock]

\* One iteration of main_service_loop up to its wait: the loop test, then
\* periodic_update_check, periodic_maintenance and memory_cleanup, each of
\* which logs and swallows what it raises.
SchTick ==
    /\ sched # <<>> /\ sched.loop = "head"
    /\ IF ObservedAbort(sched.abort)
       THEN SchedStep([sched EXCEPT !.loop = "ended"])
       ELSE \E raisedU, raisedM \in BOOLEAN :
              LET due == sched.clock - sched.last_update_check >= update_check_interval
                  spawn == ~raisedU /\ due /\ sched.wizard /\ sched.auto_updates
                  dueM == sched.clock - sched.last_maintenance >= maintenance_interval
              IN  /\ spawn => sched.per < MaxThreads
                  /\ SchedStep([sched EXCEPT
                        !.per = IF spawn THEN @ + 1 ELSE @,
                        !.last_update_check = IF spawn THEN sched.clock ELSE @,
                        !.last_maintenance = IF dueM /\ ~raisedM THEN sched.clock ELSE @,
                        !.raised = raisedU \/ raisedM,
                        !.failed = @ \/ raisedU \/ raisedM,
                        !.loop = AfterTask(raisedU \/ raisedM, "wait")])

\* if self.monitor.waitForAbort(30): break.  The loop goes on for ever; past
\* MaxTicks waits the model no longer counts the time that passes.
SchWait ==
    /\ sched # <<>> /\ sched.loop = "wait"
    /\ IF ObservedAbort(sched.abort)
       THEN SchedStep([sched EXCEPT !.loop = "ended"])
       ELSE \E d \in Elapsed :
              IF sched.ticks < MaxTicks
              THEN SchedStep([sched EXCEPT !.clock = @ + d, !.ticks = @ + 1,
                                           !.loop = "head"])
              ELSE SchedStep([sched EXCEPT !.loop = "head"])

\* main(): finally service.shutdown()
SchShutdown ==
    /\ sched # <<>> /\ sched.loop = "ended"
    /\ SchedStep([sched EXCEPT !.loop = "stopped", !.wizard = FALSE])

\* The host signals abort.
HostAbort ==
    /\ sched # <<>> /\ ~sched.abort /\ sched.loop # "stopped"
    /\ SchedStep([sched EXCEPT !.abort = TRUE, !.failed = TRUE])

\* The host starts the service again; the daemon threads of the process
\* before are gone, the files are what they were.
ProcStart ==
    /\ sched # <<>> /\ sched.loop = "stopped" /\ sched.procs < MaxProcs
    /\ SchedStep(NewProcess(sched.clock + tick_wait, sched.procs + 1,
                            sched.auto_updates, sched.settings_last, sched.info,
                            sched.marker, sched.lastReal, sched.failed))

Alive == sched # <<>> /\ sched.loop # "stopped"

\* wait_for_kodi_ready: the loop of one-second waits, left when the host is
\* ready, when abort is requested or after its maximum, and then
\* waitForAbort(2).  Nothing is done with what the waits return.
SchWaitReady ==
    /\ Alive /\ sched.start = "ready_wait"
    /\ SchedStep([sched EXCEPT !.start = "init"])

\* if not self.initialize_wizard(): return
SchInitWizard ==
    /\ Alive /\ sched.start = "init"
    /\ \E ok \in BOOLEAN :
         SchedStep([sched EXCEPT !.wizard = ok, !.failed = @ \/ ~ok,
                                 !.start = IF ok THEN "pending" ELSE "done"])

\* check_pending_installation: complete_installation consumes the marker,
\* whether it verifies the build or rolls back.
SchPending ==
    /\ Alive /\ sched.start = "pending"
    /\ IF sched.wizard /\ sched.marker # NoneV
       THEN \E ok \in BOOLEAN :
              SchedStep([sched EXCEPT !.marker = NoneV, !.failed = @ \/ ~ok,
                                      !.start = "update"])
       ELSE SchedStep([sched EXCEPT !.start = "update"])

\* Variant: no update thread is started.
no_startup_update_check(upd) == upd
\* startup_update_check of the service: starts update_check_thread.
startup_update_check(upd) == "sleep"

\* if auto_updates: self.startup_update_check(), which starts the thread;
\* then cleanup_temp_files, system_health_check, startup_complete = True.
SchSpawnStartup ==
    /\ Alive /\ sched.start = "update"
    /\ SchedStep([sched EXCEPT
          !.upd = IF sched.auto_updates THEN startup_update_check(@) ELSE @,
          !.start = "done"])

\* update_check_thread: time.sleep(5), then the test of abortRequested and
\* of the wizard, after which wizard.startup_update_check begins.
SchUpdWake ==
    /\ Alive /\ sched.upd = "sleep"
    /\ LET woke == sched
       IN  IF ObservedAbort(sched.abort) \/ ~sched.wizard
           THEN SchedStep([woke EXCEPT !.upd = "done"])
           ELSE SchedStep([RealCheck(woke) EXCEPT !.nStartup = @ + 1,
                                                   !.upd = "check"])

\* wizard.startup_update_check: check_wizard_update, else check_build_updates
\* and install_build of what it returns, which records the build, writes the
\* marker and asks for the restart; then the thread's
\* self.last_update_check = time.time().
SchStartupCheck ==
    /\ Alive /\ sched.upd = "check"
    /\ \E fetched, wizard_updated \in BOOLEAN :
         LET build == IF wizard_updated THEN NoneV
                      ELSE check_build_updates(sched.info, sched.catalog, fetched)
             noted == [sched EXCEPT !.failed = @ \/ ~fetched \/ wizard_updated,
                                    !.last_update_check = sched.clock,
                                    !.upd = "done"]
         IN  IF build = NoneV
             THEN SchedStep(noted)
             ELSE SchedStep([noted EXCEPT !.info = save_build_info(@, build),
                                          !.marker = build, !.abort = TRUE])

\* The thread of the periodic tick: wizard.periodic_update_check, which
\* checks once per day by the time kept in the settings file.
SchPeriodicThread ==
    /\ Alive /\ sched.per > 0
    /\ IF sched.auto_updates /\ ~(sched.clock - sched.settings_last < periodic_check_period)
       THEN \E fetched \in BOOLEAN :
              SchedStep([RealCheck(sched) EXCEPT !.per = @ - 1,
                                                 !.settings_last = sched.clock,
                                                 !.failed = @ \/ ~fetched])
       ELSE SchedStep([sched EXCEPT !.per = @ - 1])

\* The threads of the service process.
LoopThread == SchTick \/ SchWait \/ SchShutdown
StartupThread == SchWaitReady \/ SchInitWizard \/ SchPending \/ SchSpawnStartup
UpdateThread == SchUpdWake \/ SchStartupCheck
PeriodicThread == SchPeriodicThread

SchedService == LoopThread \/ StartupThread \/ UpdateThread \/ PeriodicThread

SchedNext == SchedService \/ HostAbort \/ ProcStart

SchedSpec == SchedInit /\ [][SchedNext]_vars

\* Each thread of the service gets to run; the host's abort and restart are
\* not owed.
SchedFair ==
    /\ SchedSpec
    /\ WF_vars(LoopThread) /\ WF_vars(StartupThread)
    /\ WF_vars(UpdateThread) /\ WF_vars(PeriodicThread)

\* ------------------------------------------------- scheduler: properties

\* A step in which a real update check begins: the startup check of the
\* update thread, or the periodic check that passed the wizard's gate.
StartupCheckBegins == sched.upd = "sleep" /\ sched'.upd = "check"
RealCheckStep == StartupCheckBegins \/ sched'.settings_last # sched.settings_last

\* C11: with build 1.1 installed, "CutCable-v1.2" in the catalog, auto-update
\* on and no marker, and no failure, abort or wizard update on the way, the
\* installed record eventually says 1.2 and the marker is gone.
C11_AutoUpdateInstalls ==
    (/\ sched.info.version = <<"1", ".", "1">>
     /\ sched.catalog = <<NameLatest>>
     /\ sched.auto_updates
     /\ sched.marker = NoneV)
    => <>(sched.failed \/ (sched.info.version = <<"1", ".", "2">> /\ sched.marker = NoneV))

\* C12: no real update check, the startup check included, begins less than
\* one update_check_interval after the real check before it.
C12_RateLimited ==
    [][RealCheckStep /\ sched.lastReal >= 0
        => sched'.clock - sched.lastReal >= update_check_interval]_vars

\* C13: a process makes at most one startup check, the update thread exists
\* only once the ready wait, the wizard and the pending installation are
\* done with, and with auto-update on a started process comes to its one
\* startup check unless abort is signalled or the wizard cannot be built.
C13_OneStartupCheck ==
    /\ [](sched.nStartup <= 1)
    /\ [](sched.upd # "none" => sched.start = "done")
    /\ [](sched.start = "ready_wait" /\ sched.auto_updates
            => <>(\/ sched.nStartup = 1
                  \/ sched.abort
                  \/ (sched.start = "done" /\ ~sched.wizard)))
C13_Witness ==
    /\ sched # <<>> /\ sched.nStartup = 1 /\ sched.upd = "done"
    /\ sched.start = "done" /\ ~sched.abort /\ sched.procs = 2

\* C14: the loop leaves its iterations only when abort was signalled, and
\* after an iteration in which a task raised it comes to the next one.
C14_LoopSurvivesErrors ==
    /\ [][sched.loop \in {"head", "wait"} /\ sched'.loop \notin {"head", "wait"}
            => sched.abort]_vars
    /\ [](sched.raised /\ sched.loop = "wait"
            => <>(sched.loop = "head" \/ sched.abort))
C14_Witness ==
    /\ sched # <<>> /\ sched.raised /\ sched.loop = "head"
    /\ sched.ticks >= 1 /\ ~sched.abort

MaxSegs == 3      \* segments of a generated version string

\* Segments the version strings are made of: numbers, a word, nothing.
Segs == {<<"0">>, <<"2">>, <<"1", "0">>, <<"x">>, <<>>}

RECURSIVE JoinDots(_, _)
\* '.'.join of the first n segments of f.
JoinDots(f, n) ==
    IF n = 1 THEN f[1] ELSE JoinDots(f, n - 1) \o <<".">> \o f[n]

\* Further operands: "1.2", "1.2.0", "1.10", "1.-2" and "-2".
ExtraVersions ==
    {<<"1", ".", "2">>, <<"1", ".", "2", ".", "0">>, <<"1", ".", "1", "0">>,
     <<"1", ".", "-", "2">>, <<"-", "2">>}

\* The operands: every join of up to MaxSegs segments (the empty string,
\* which stands for a missing version too, is the join of the empty segment).
Versions ==
    UNION {{JoinDots(f, n) : f \in [1..n -> Segs]} : n \in 1..MaxSegs}
      \cup ExtraVersions

CmpInit ==
    /\ MainInit /\ buildInfoFile = <<>>
    /\ sched = <<>> /\ pr = <<>> /\ dl = <<>> /\ call = <<>>
    /\ \E a, b \in Versions :
         cv = [version1 |-> a, version2 |-> b, returned |-> FALSE, result |-> 0]

\* A call of compare_versions(version1, version2).
CompareVersions ==
    /\ cv # <<>> /\ ~cv.returned
    /\ cv' = [cv EXCEPT !.returned = TRUE,
                        !.result = compare_versions(cv.version1, cv.version2)]
    /\ UNCHANGED <<mainVars, sched, pr, dl, call>>

CmpNext == CompareVersions

CmpSpec == CmpInit /\ [][CmpNext]_vars

\* A segment that is a number: digits, with or without a sign.
Numeric(seg) ==
    LET d == IF seg # <<>> /\ seg[1] \in {"-", "+"} THEN Tail(seg) ELSE seg
    IN  d # <<>> /\ \A i \in 1..Len(d) : d[i] \in Digits
\* A version of dot-separated numbers.
WellFormed(version) ==
    \A i \in 1..Len(SplitDots(version, 1, <<>>)) :
        Numeric(SplitDots(version, 1, <<>>)[i])

\* C16: for operands of dot-separated integers the result is the sign of the
\* first difference between the segments, the shorter operand counting as
\* continued by zeros; without a difference the result is 0.
C16_SegmentwiseSign ==
    cv.returned /\ WellFormed(cv.version1) /\ WellFormed(cv.version2)
    => LET a == Parts(cv.version1)
           b == Parts(cv.version2)
           n == IF Len(a) > Len(b) THEN Len(a) ELSE Len(b)
           At(p, i) == IF i <= Len(p) THEN p[i] ELSE 0
           diff == {i \in 1..n : At(a, i) # At(b, i)}
           first == CHOOSE i \in diff : \A j \in diff : i <= j
       IN  cv.result = IF diff = {} THEN 0
                       ELSE IF At(a, first) > At(b, first) THEN 1 ELSE -1
C16_Witness ==
    /\ cv # <<>> /\ cv.returned
    /\ cv.version1 = <<"1", ".", "2">> /\ cv.version2 = <<"1", ".", "2", ".", "0">>
    /\ cv.result = 0

MaxStamp == 5     \* int(time.time()) takes the values 1..MaxStamp here

Stamps == 1..MaxStamp
\* What userdata holds when a backup is made: none of the items, one file, or
\* the files and directories of a used installation.
PruneLives ==
    {NoItems,
     [i \in Items |-> IF i = "sources.xml" THEN "orig" ELSE "absent"],
     [i \in Items |-> FreshLive[i]]}

\* The timestamps of the snapshot directories of bk.
Existing(bk) == {t \in DOMAIN bk : bk[t].exists}

PruneInit ==
    /\ MainInit /\ buildInfoFile = <<>>
    /\ sched = <<>> /\ cv = <<>> /\ dl = <<>> /\ call = <<>>
    /\ pr = [clock |-> 1, backups |-> [t \in Stamps |-> NoSnapshot],
             pruned |-> FALSE, had |-> {}]

\* A call of create_backup: pr.had keeps which snapshots there were when
\* cleanup_old_backups ran, pr.pruned whether it ran in the last step.
PrCreateBackup ==
    /\ pr # <<>>
    /\ \E lv \in PruneLives, cancelAt \in {1, Len(ItemOrder) + 1} :
         LET r == create_backup(pr.backups, lv, pr.clock, cancelAt)
         IN  pr' = [pr EXCEPT !.backups = r.backups,
                              !.pruned = r.name # NoneV,
                              !.had = IF r.name # NoneV
                                      THEN Existing(pr.backups) \cup {pr.clock} ELSE {}]
    /\ UNCHANGED <<mainVars, sched, cv, dl, call>>

\* periodic_maintenance of the service: self.wizard.cleanup_old_backups()
PrMaintenance ==
    /\ pr # <<>>
    /\ pr' = [pr EXCEPT !.backups = cleanup_old_backups(pr.backups, keep_count),
                        !.pruned = TRUE, !.had = Existing(pr.backups)]
    /\ UNCHANGED <<mainVars, sched, cv, dl, call>>

\* A second passes.
PrSecond ==
    /\ pr # <<>> /\ pr.clock < MaxStamp
    /\ pr' = [pr EXCEPT !.clock = @ + 1, !.pruned = FALSE, !.had = {}]
    /\ UNCHANGED <<mainVars, sched, cv, dl, call>>

PruneNext == PrCreateBackup \/ PrMaintenance \/ PrSecond

PruneSpec == PruneInit /\ [][PruneNext]_vars

\* C18: when the pruning ran over more than keep_count snapshots, exactly
\* keep_count of them are left, and each of them is newer than each of those
\* removed.
C18_PruneKeepsNewest ==
    pr.pruned /\ Cardinality(pr.had) > keep_count
    => /\ Existing(pr.backups) \subseteq pr.had
       /\ Cardinality(Existing(pr.backups)) = keep_count
       /\ \A a \in Existing(pr.backups), b \in pr.had \ Existing(pr.backups) : a > b
C18_Witness ==
    /\ pr # <<>> /\ pr.pruned
    /\ Cardinality(pr.had) = keep_count + 2
    /\ Existing(pr.backups) = {MaxStamp - 2, MaxStamp - 1, MaxStamp}

\* ---------------------------------------------------------------- download_file
MaxChunks == 4    \* chunks of the longest response body

NoDest == [exists |-> FALSE, len |-> 0]
\* What requests.get / raise_for_status may raise.
GetErrors == {"connection", "timeout", "status"}

\* Variant of the removal that leaves the destination.
KeepDest(dest) == dest
\* if os.path.exists(destination): os.remove(destination)
RemoveDest(dest) == NoDest

\* Variant of the end of the loop: the loop is left before the stream ends.
StreamEndedEarly(written, n) == TRUE
\* for chunk in response.iter_content(...): the iteration is over.
StreamEnded(written, n) == written = n

\* One call of download_file: the body has n chunks, the destination is
\* absent or left by an earlier run.
DlInit ==
    /\ MainInit /\ buildInfoFile = <<>>
    /\ sched = <<>> /\ cv = <<>> /\ pr = <<>> /\ call = <<>>
    /\ \E n \in 0..MaxChunks, stale \in BOOLEAN :
         dl = [pos |-> "get", n |-> n, written |-> 0,
               dest |-> [exists |-> stale, len |-> 0],
               progress |-> "none", why |-> "none", result |-> "none"]

DlStep(new) == dl' = new /\ UNCHANGED <<mainVars, sched, cv, pr, call>>

\* except Exception: close the progress dialog if there is one, remove the
\* destination, return False.
DlExcept(d, why) ==
    [d EXCEPT !.pos = "done", !.why = why, !.result = "False",
              !.progress = IF @ = "none" THEN @ ELSE "closed",
              !.dest = RemoveDest(@)]

\* requests.get(url, stream=True, timeout=...), raise_for_status, and the
\* creation of the progress dialog.
DlGet ==
    /\ dl # <<>> /\ dl.pos = "get"
    /\ \/ DlStep([dl EXCEPT !.pos = "open", !.progress = "open"])
       \/ \E e \in GetErrors : DlStep(DlExcept(dl, e))

\* with open(destination, 'wb') as f
DlOpen ==
    /\ dl # <<>> /\ dl.pos = "open"
    /\ \/ DlStep([dl EXCEPT !.pos = "loop", !.dest = [exists |-> TRUE, len |-> 0]])
       \/ DlStep(DlExcept(dl, "open"))

\* One chunk of the loop: progress.iscanceled() is asked first; a cancelled
\* download closes the response, removes the destination and returns False
\* (where the open file cannot be removed, os.remove raises and the handler
\* removes it once the file is closed); else the chunk is written.
DlChunk ==
    /\ dl # <<>> /\ dl.pos = "loop" /\ ~StreamEnded(dl.written, dl.n)
    /\ \/ \E removeRaises \in BOOLEAN :
            IF removeRaises
            THEN DlStep(DlExcept(dl, "cancel"))
            ELSE DlStep([dl EXCEPT !.pos = "done", !.why = "cancel",
                                   !.result = "False", !.dest = RemoveDest(@)])
       \/ DlStep([dl EXCEPT !.written = @ + 1, !.dest.len = @ + 1])
       \/ \E partly \in BOOLEAN :
            DlStep(DlExcept([dl EXCEPT !.dest.len = IF partly THEN @ + 1 ELSE @],
                            "write"))

\* iter_content raises while the next chunk is read.
DlReadError ==
    /\ dl # <<>> /\ dl.pos = "loop"
    /\ DlStep(DlExcept(dl, "read"))

\* The iteration is over: progress.close(); return True.
DlFinish ==
    /\ dl # <<>> /\ dl.pos = "loop" /\ StreamEnded(dl.written, dl.n)
    /\ DlStep([dl EXCEPT !.pos = "done", !.progress = "closed", !.result = "True"])

DlNext == DlGet \/ DlOpen \/ DlChunk \/ DlReadError \/ DlFinish

DlSpec == DlInit /\ [][DlNext]_vars

\* C19: a download cancelled at a chunk boundary returns False and leaves no
\* file at the destination, however many chunks were written before.
C19_CancelLeavesNothing ==
    dl.why = "cancel" => dl.result = "False" /\ ~dl.dest.exists
C19_Witness ==
    /\ dl # <<>> /\ dl.why = "cancel" /\ dl.written = 2 /\ dl.n = MaxChunks
    /\ dl.result = "False" /\ ~dl.dest.exists

\* C20: a call ended by a transport error (connection, timeout, status, read
\* or write) returns False and leaves no file at the destination; True is
\* returned only with every chunk of the stream in the destination.
C20_ErrorLeavesNothing ==
    /\ dl.why \in GetErrors \cup {"open", "read", "write"}
         => dl.result = "False" /\ ~dl.dest.exists
    /\ dl.result = "True"
         => dl.why = "none" /\ dl.dest.exists /\ dl.dest.len = dl.n
C20_Witness ==
    /\ dl # <<>> /\ dl.why = "write" /\ dl.written = 1
    /\ dl.result = "False" /\ ~dl.dest.exists

\* ---------------------------------------------------------------- extract_build
MaxEntries == 4   \* entries of the largest archive

\* What stays unchanged in a step of a function run on its own.
CallStep(new) == call' = new /\ UNCHANGED <<mainVars, sched, cv, pr, dl>>
CallInit == MainInit /\ buildInfoFile = <<>> /\ SideIdleBut

\* Variant: an entry that cannot be extracted ends the extraction.
EntryErrorAborts(c) == [c EXCEPT !.pos = "done", !.why = "entry", !.result = "False"]
\* except: continue  ("Skip problematic files")
EntryErrorSkips(c) == [c EXCEPT !.i = @ + 1, !.skipped = @ \cup {c.i}]

\* One call of extract_build on an archive of n entries of which entry bad
\* (0: none) is corrupt or of an unsupported kind.
ExInit ==
    /\ CallInit
    /\ \E n \in 1..MaxEntries, bad \in 0..MaxEntries :
         /\ bad <= n
         /\ call = [pos |-> "open", n |-> n, bad |-> bad, i |-> 1, got |-> {},
                    skipped |-> {}, why |-> "none", result |-> "none"]

\* progress.create; zipfile.ZipFile(zip_path, 'r'), namelist()
ExOpen ==
    /\ call # <<>> /\ call.pos = "open"
    /\ \/ CallStep([call EXCEPT !.pos = "loop"])
       \/ CallStep([call EXCEPT !.pos = "done", !.why = "open", !.result = "False"])

\* One entry of the loop: progress.iscanceled() returns False from the
\* function; else zip_ref.extract, whose exception skips the entry.
ExEntry ==
    /\ call # <<>> /\ call.pos = "loop" /\ call.i <= call.n
    /\ \/ CallStep([call EXCEPT !.pos = "done", !.why = "cancel", !.result = "False"])
       \/ /\ call.i # call.bad
          /\ CallStep([call EXCEPT !.i = @ + 1, !.got = @ \cup {call.i}])
       \/ /\ call.i = call.bad
          /\ CallStep(EntryErrorSkips(call))

\* progress.close(); return True
ExFinish ==
    /\ call # <<>> /\ call.pos = "loop" /\ call.i > call.n
    /\ CallStep([call EXCEPT !.pos = "done", !.result = "True"])

ExNext == ExOpen \/ ExEntry \/ ExFinish

ExSpec == ExInit /\ [][ExNext]_vars

\* C21: a call that opened the archive and was not cancelled returns True
\* with every entry but the damaged one in the target directory.
C21_DamagedEntrySkipped ==
    call.pos = "done" /\ call.why \notin {"open", "cancel"}
    => /\ call.result = "True"
       /\ call.got = (1..call.n) \ {call.bad}
C21_Witness ==
    /\ call # <<>> /\ call.pos = "done" /\ call.result = "True"
    /\ call.n = MaxEntries /\ call.bad = 2 /\ call.skipped = {2}
    /\ call.got = (1..MaxEntries) \ {2}

\* ---------------------------------------------------------------- fetch_builds_list
max_retries == 3

\* What one attempt comes to: the catalog, or an exception of requests.get
\* (connection, timeout), of raise_for_status, of response.json(), or the
\* ValueError raised for a document without the 'builds' key.
Attempts == {"ok", "network", "status", "json", "no_builds"}

\* Variant of the backoff: the same wait every time.
FlatBackoff(attempt) == 1
\* time.sleep(2 ** attempt)
Backoff(attempt) == 2 ^ attempt

\* One call of fetch_builds_list.  seen lists what the attempts came to,
\* waits the sleeps between them.
FbInit ==
    /\ CallInit
    /\ call = [pos |-> "try", attempt |-> 0, seen |-> <<>>, waits |-> <<>>,
               result |-> "none"]

\* The body of the try for one attempt, and the handler's choice between
\* another attempt and giving up.
FbAttempt ==
    /\ call # <<>> /\ call.pos = "try"
    /\ \E a \in Attempts :
         LET c == [call EXCEPT !.seen = Append(@, a)]
         IN  IF a = "ok"
             THEN CallStep([c EXCEPT !.pos = "done", !.result = "catalog"])
             ELSE IF call.attempt < max_retries - 1
             THEN CallStep([c EXCEPT !.pos = "sleep"])
             ELSE CallStep([c EXCEPT !.pos = "done", !.result = "None"])

\* time.sleep(2 ** attempt); continue
FbSleep ==
    /\ call # <<>> /\ call.pos = "sleep"
    /\ CallStep([call EXCEPT !.waits = Append(@, Backoff(call.attempt)),
                             !.attempt = @ + 1, !.pos = "try"])

FbNext == FbAttempt \/ FbSleep

FbSpec == FbInit /\ [][FbNext]_vars
\* The call runs on its thread.
FbFair == FbSpec /\ WF_vars(FbNext)

\* C22: an attempt that got a document without the 'builds' key is the last
\* one, and the call's result differs from the result of a network failure.
C22_SchemaDistinct ==
    \A k \in 1..Len(call.seen) :
        call.seen[k] = "no_builds"
        => call.pos = "done" /\ k = Len(call.seen) /\ call.result # "None"

\* C27: at most max_retries attempts, a wait of 1 and then of 2 between
\* them and none after the last, the catalog of the first attempt that
\* succeeds, no catalog only after max_retries failures, and the call ends.
C27_BoundedRetries ==
    /\ [](/\ Len(call.seen) <= max_retries
          /\ call.waits = SubSeq(<<1, 2>>, 1, Len(call.waits))
          /\ Len(call.waits) = IF call.pos = "try" THEN Len(call.seen)
                               ELSE Len(call.seen) - 1
          /\ \A k \in 1..(Len(call.seen) - 1) : call.seen[k] # "ok"
          /\ call.result = "catalog" => call.seen[Len(call.seen)] = "ok"
          /\ call.result = "None"
               => Len(call.seen) = max_retries /\ call.seen[max_retries] # "ok")
    /\ <>(call.pos = "done")
C27_Witness ==
    /\ call # <<>> /\ call.pos = "done" /\ call.result = "catalog"
    /\ call.seen = <<"network", "network", "ok">> /\ call.waits = <<1, 2>>

\* ---------------------------------------------------------------- verify_admin_password
\* Passwords a user may type, as character sequences.
Passwords == {<<"a">>, <<"b">>, <<"a", "b">>, <<"b", "a">>, <<"a", "a">>}
\* The password argument: a typed password, or None.
Candidates == Passwords \cup {NoneV}

\* Variant: the candidate itself is compared.
PlainText(password) == password
\* hashlib.sha256(password.encode('utf-8')).hexdigest(): the digest of a
\* password is a value of its own, one per password.
Sha256Hex(password) == <<"sha256">> \o password

\* What fetch_builds_list returns: None, a catalog without
\* 'admin_password_hash', or one whose entry is a digest or, wrongly
\* published, a password as typed.
Catalogs ==
    {[fetched |-> FALSE, has_hash |-> FALSE, hash |-> NoneV],
     [fetched |-> TRUE, has_hash |-> FALSE, hash |-> NoneV]}
    \cup {[fetched |-> TRUE, has_hash |-> TRUE, hash |-> h] :
            h \in {Sha256Hex(q) : q \in Passwords} \cup Passwords}

VpInit ==
    /\ CallInit
    /\ \E c \in Candidates :
         call = [pos |-> "fetch", password |-> c,
                 builds_data |-> [fetched |-> FALSE, has_hash |-> FALSE, hash |-> NoneV],
                 compared |-> NoneV, result |-> FALSE]

\* builds_data = self.fetch_builds_list(); without a catalog or without the
\* hash entry: return False.
VpFetch ==
    /\ call # <<>> /\ call.pos = "fetch"
    /\ \E b \in Catalogs :
         CallStep([call EXCEPT !.builds_data = b,
                               !.pos = IF b.fetched /\ b.has_hash THEN "hash" ELSE "done"])

\* The digest of the candidate is compared with the catalog's entry;
\* password.encode of None raises, which returns False.
VpCompare ==
    /\ call # <<>> /\ call.pos = "hash"
    /\ IF call.password = NoneV
       THEN CallStep([call EXCEPT !.pos = "done"])
       ELSE CallStep([call EXCEPT !.pos = "done",
                                  !.compared = Sha256Hex(call.password),
                                  !.result = (Sha256Hex(call.password) = call.builds_data.hash)])

VpNext == VpFetch \/ VpCompare

VpSpec == VpInit /\ [][VpNext]_vars

\* C23: the call returns true exactly when a catalog was fetched whose hash
\* entry is the SHA-256 digest of the candidate, and what it compared with
\* the entry is never the candidate as typed.
C23_HashOnly ==
    call.pos = "done"
    => /\ call.result <=> (/\ call.builds_data.fetched
                           /\ call.builds_data.has_hash
                           /\ call.password # NoneV
                           /\ call.builds_data.hash = <<"sha256">> \o call.password)
       /\ call.compared = NoneV \/ call.compared # call.password
C23_Witness ==
    /\ call # <<>> /\ call.pos = "done" /\ call.result
    /\ call.password = <<"a", "b">>

\* ---------------------------------------------------------------- state store
\* wizard_settings.json and current_build.json, written by save_settings and
\* save_build_info of one wizard instance while another instance (the
\* service's, the interactive script's) loads them.
StoreFiles == {"settings", "build_info"}

\* What the bytes of a file are while it is rewritten: the record before,
\* nothing (open(..., 'w') truncated it), a prefix of the JSON text, the
\* new record.
AfterOpenW(content) == "empty"
AfterFirstWrite(content) == "half"
AfterDump(content) == "new"

\* json.load of the bytes: the record, or a JSONDecodeError, after which the
\* loader returns its defaults.
LoadOf(content) ==
    IF content \in {"empty", "half"} THEN "defaults" ELSE content

StInit ==
    /\ CallInit
    /\ call = [content |-> [f \in StoreFiles |-> "old"],
               writer |-> [f \in StoreFiles |-> "idle"],
               seen |-> [f \in StoreFiles |-> "none"],
               loaded |-> [f \in StoreFiles |-> "none"]]

\* with open(file, 'w', encoding='utf-8') as f
StOpen(f) ==
    /\ call # <<>> /\ call.writer[f] = "idle"
    /\ CallStep([call EXCEPT !.writer[f] = "opened",
                             !.content[f] = AfterOpenW(@)])

\* json.dump(record, f, ...): the text reaches the file in several writes.
StDumpSome(f) ==
    /\ call # <<>> /\ call.writer[f] = "opened"
    /\ CallStep([call EXCEPT !.writer[f] = "dumping",
                             !.content[f] = AfterFirstWrite(@)])

\* The rest of the text is written and the file closed.
StDumpRest(f) ==
    /\ call # <<>> /\ call.writer[f] = "dumping"
    /\ CallStep([call EXCEPT !.writer[f] = "idle",
                             !.content[f] = AfterDump(@)])

\* load_settings / load_build_info of another instance.
StLoad(f) ==
    /\ call # <<>>
    /\ CallStep([call EXCEPT !.seen[f] = call.content[f],
                             !.loaded[f] = LoadOf(call.content[f])])

StNext == \E f \in StoreFiles : StOpen(f) \/ StDumpSome(f) \/ StDumpRest(f) \/ StLoad(f)

StSpec == StInit /\ [][StNext]_vars

\* C24: what a loader finds in a file is a whole record, the one before the
\* save or the one after it, never an empty or partly written file.
C24_AtomicRecords ==
    \A f \in StoreFiles : call.seen[f] \notin {"empty", "half"}

\* ------------------------------------------------- coordinator: notifications
\* The dialogs and notifications that tell the user of a failure.
FailureMessages ==
    {"Connection Error", "Backup Failed", "Download Failed", "Extraction Failed",
     "Installation Error", "Installation failed", "Installation failed - backup restored"}

\* C25: a run of install_build or complete_installation that ended in a
\* failure (aborted, raised, stale marker, failed copy) has shown the user a
\* dialog or notification of the failure.
C25_FailureNotified ==
    \A p \in Threads :
        pc[p] \notin IbPcs \cup CiPcs
        /\ loc[p].outcome \in {"aborted", "error", "stale", "failed"}
        => loc[p].did \cap FailureMessages # {}

\* ------------------------------------------------------------ restore_backup
\* The snapshots create_backup leaves: what its item loop copied of a live
\* tree before it ended or was cancelled.
\* xbmcvfs.exists answered for the files only (the directory paths are asked
\* for without a trailing separator), else the copytree call raised and the
\* snapshot stayed empty.
SnapshotSources ==
    {lv \in [Items -> {"absent", "orig"}] : \A it \in Items : IsDir(it) => lv[it] = "absent"}
Snapshots ==
    {BackupLoop(NoItems, lv, 1, c).items : lv \in SnapshotSources, c \in 0..Len(ItemOrder)}
\* The live items when a restore starts: the files may have been removed or
\* rewritten by a build since the snapshot was taken.
RsLives ==
    {lv \in [Items -> {"absent", "orig", "B"}] : \A it \in Items : IsDir(it) => lv[it] = "orig"}

\* Variant: every item of restore_items is restored, in the snapshot or not.
EveryItem(snap, it) == TRUE
\* if xbmcvfs.exists(source_path): only an item the snapshot holds is
\* restored.
InSnapshot(snap, it) == snap[it] # "absent"

\* What removing the live path of an item does to the backup directory:
\* self.backup_path lies below the addon's profile, which lies below
\* userdata/addon_data, so removing that tree removes every snapshot.
AfterRemove(backup_path, it) == IF it = "addon_data" THEN "removed" ELSE backup_path

\* One call of restore_backup(backup_name) on a snapshot directory that is
\* there or not.
RsInit ==
    /\ CallInit
    /\ \E snap \in Snapshots, lv \in RsLives, there \in BOOLEAN :
         call = [pos |-> "start", snap |-> snap, there |-> there, live |-> lv,
                 i |-> 1, result |-> "none", backup_path |-> "kept"]

\* if not xbmcvfs.exists(backup_dir): return False;  progress.create
RsBegin ==
    /\ call # <<>> /\ call.pos = "start"
    /\ IF call.there THEN CallStep([call EXCEPT !.pos = "loop"])
       ELSE CallStep([call EXCEPT !.pos = "done", !.result = "False"])

\* One pass of the loop up to the copy: progress.iscanceled() breaks; an item
\* the snapshot lacks is passed over; else the live path is removed.
RsItem ==
    /\ call # <<>> /\ call.pos = "loop" /\ call.i <= Len(ItemOrder)
    /\ \E cancelled \in BOOLEAN :
         LET it == ItemOrder[call.i]
         IN  IF cancelled THEN CallStep([call EXCEPT !.pos = "close"])
             ELSE IF ~InSnapshot(call.snap, it) THEN CallStep([call EXCEPT !.i = @ + 1])
             ELSE CallStep([call EXCEPT !.pos = "copy", !.live = [@ EXCEPT ![it] = "absent"],
                                        !.backup_path = AfterRemove(@, it)])

\* shutil.copytree(..., ignore_errors=True) raises; shutil.copy2 puts the
\* file back or raises.  An exception ends the call with False.
RsCopy ==
    /\ call # <<>> /\ call.pos = "copy"
    /\ LET it == ItemOrder[call.i]
       IN  \/ /\ ~IsDir(it)
              /\ CallStep([call EXCEPT !.pos = "loop", !.i = @ + 1,
                                       !.live = [@ EXCEPT ![it] = call.snap[it]]])
           \/ CallStep([call EXCEPT !.pos = "done", !.result = "False"])

\* progress.close(); return True  (after the last item or after the break)
RsReturn ==
    /\ call # <<>>
    /\ \/ call.pos = "loop" /\ call.i > Len(ItemOrder)
       \/ call.pos = "close"
    /\ CallStep([call EXCEPT !.pos = "done", !.result = "True"])

RsNext == RsBegin \/ RsItem \/ RsCopy \/ RsReturn

RsSpec == RsInit /\ [][RsNext]_vars

\* C26: the live path of a backed-up item is gone when its copy is put back,
\* and a restore that returned True has put every backed-up item back: each
\* path the snapshot holds has the snapshot's content.
C26_RestoreReplaces ==
    /\ call.pos = "copy" => call.live[ItemOrder[call.i]] = "absent"
    /\ call.pos = "done" /\ call.result = "True"
       => \A it \in Items : call.snap[it] # "absent" => call.live[it] = call.snap[it]

\* C36: restore_backup never removes the backup directory or a snapshot in
\* it: the live paths it removes are those of the items the snapshot holds,
\* and addon_data is not among them.
C36_BackupsUntouched ==
    /\ call.backup_path = "kept"
    /\ call.pos = "copy" => ItemOrder[call.i] # "addon_data"
C36_Witness ==
    /\ call # <<>> /\ call.pos = "done" /\ call.result = "True"
    /\ call.snap["sources.xml"] = "orig" /\ call.snap["favourites.xml"] = "orig"
    /\ call.live["sources.xml"] = "orig" /\ call.live["favourites.xml"] = "orig"
    /\ call.live["addon_data"] = "orig" /\ call.backup_path = "kept"

\* ------------------------------------------------------------- create_backup
\* What userdata may hold when create_backup runs: each configured path is
\* there or not.
CbLives == [Items -> {"absent", "orig"}]

\* One call of create_backup at second 1 with no earlier snapshot; the
\* progress dialog is cancelled at item cancelAt (0: never).
CbInit ==
    /\ CallInit
    /\ \E lv \in CbLives, cancelAt \in 0..Len(ItemOrder) :
         call = [pos |-> "start", live |-> lv, cancelAt |-> cancelAt,
                 name |-> NoneV, items |-> NoItems]

CbCall ==
    /\ call # <<>> /\ call.pos = "start"
    /\ LET r == create_backup([t \in {1} |-> NoSnapshot], call.live, 1, call.cancelAt)
       IN  CallStep([call EXCEPT !.pos = "done", !.name = r.name,
                                 !.items = r.backups[1].items])

CbNext == CbCall

CbSpec == CbInit /\ [][CbNext]_vars

\* C28: a call that was not cancelled returns a snapshot id, and the snapshot
\* holds every configured path that exists, but for an item whose copy failed
\* (here: a directory tree, whose copytree call raises).
C28_BestEffort ==
    call.pos = "done" /\ call.cancelAt = 0
    => /\ call.name # NoneV
       /\ \A it \in Items :
            call.live[it] # "absent" /\ ~IsDir(it) => call.items[it] = call.live[it]

\* ------------------------------------------------------------- update checks
\* "Kids-v2.0", a build of another name.
NameOther == <<"K", "-", "v", "2", ".", "0">>
BuildNames == {NameA, NameLatest, NameB, NameOther}
\* The catalogs fetched: one or two entries.
UpCatalogs == {<<a>> : a \in BuildNames} \cup {<<a, b>> : a \in BuildNames, b \in BuildNames}
\* The records save_build_info can have written, and the record of a fresh
\* installation.
UpInfos == {DefaultInfo} \cup {save_build_info(DefaultInfo, n) : n \in BuildNames}

\* The part of a build's name before its version: two names with the same
\* part are releases of one build.
Stem(name) ==
    LET s == LowerSeq(name)
        starts == {i \in 1..Len(s) : MatchEnd(s, i) > 0}
    IN  IF starts = {} THEN s
        ELSE SubSeq(s, 1, (CHOOSE k \in starts : \A j \in starts : k <= j) - 1)
\* The catalog holds a release of the installed build whose version
\* compare_versions finds greater than the recorded one.
NewerInCatalog(info, catalog) ==
    /\ info.installed_build # NoneV
    /\ \E i \in 1..Len(catalog) :
         /\ Stem(catalog[i]) = Stem(info.installed_build)
         /\ compare_versions(extract_version_from_name(catalog[i]), info.version) > 0

\* One update check, on the startup path or from the maintenance menu.
UpInit ==
    /\ CallInit
    /\ \E path \in {"startup", "interactive"}, info \in UpInfos, catalog \in UpCatalogs,
          auto \in BOOLEAN :
         call = [pos |-> "start", path |-> path, info |-> info, catalog |-> catalog,
                 auto_updates |-> auto, fetched |-> FALSE, checked |-> FALSE,
                 reported |-> NoneV, prompted |-> FALSE, accepted |-> FALSE,
                 installing |-> NoneV]

\* startup_update_check of the wizard: nothing without auto_updates; else
\* check_wizard_update, and without a wizard update check_build_updates and
\* install_build of what it returns.
UpStartup ==
    /\ call # <<>> /\ call.pos = "start" /\ call.path = "startup"
    /\ IF ~call.auto_updates THEN CallStep([call EXCEPT !.pos = "done"])
       ELSE \E wizard_updated, fetched \in BOOLEAN :
              IF wizard_updated THEN CallStep([call EXCEPT !.pos = "done"])
              ELSE LET build == check_build_updates(call.info, call.catalog, fetched)
                   IN  CallStep([call EXCEPT !.pos = "done", !.fetched = fetched,
                                             !.checked = TRUE, !.reported = build,
                                             !.installing = build])

\* force_update_check: check_wizard_update and check_build_updates; "Wizard
\* Updated", or the yesno "Build Update Available" and install_build on yes,
\* or "No Updates".
UpForce ==
    /\ call # <<>> /\ call.pos = "start" /\ call.path = "interactive"
    /\ \E wizard_updated, fetched, yes \in BOOLEAN :
         LET build == check_build_updates(call.info, call.catalog, fetched)
             asks == ~wizard_updated /\ build # NoneV
         IN  CallStep([call EXCEPT !.pos = "done", !.fetched = fetched,
                                   !.checked = TRUE, !.reported = build,
                                   !.prompted = asks,
                                   !.accepted = asks /\ yes,
                                   !.installing = IF asks /\ yes THEN build ELSE NoneV])

UpNext == UpStartup \/ UpForce

UpSpec == UpInit /\ [][UpNext]_vars

\* C29: check_build_updates, given the catalog, reports an update exactly
\* when the catalog holds a release of the installed build that
\* compare_versions finds newer than the installed version; the startup path
\* installs only with auto-update on, the interactive path only after the
\* user accepted the prompt.
C29_UpdateReported ==
    /\ call.checked /\ call.fetched
       => (call.reported # NoneV <=> NewerInCatalog(call.info, call.catalog))
    /\ call.installing # NoneV /\ call.path = "startup" => call.auto_updates
    /\ call.installing # NoneV /\ call.path = "interactive" => call.accepted

\* ---------------------------------------------------------- copy_build_files
MaxFiles == 3     \* files of the largest extracted payload

\* The payload's files are numbered in os.walk order; file k lies in the
\* destination directory DirOf(k): the destination itself (0) or a
\* directory below it (1).
CpDirs == {0, 1}
DirOf(k) == k % 2

\* Variant: a file whose copy raises ends the copying.
CopyErrorAborts(c) == [c EXCEPT !.pos = "done", !.why = "copy", !.result = "False"]
\* except: continue  ("Skip problematic files")
CopyErrorSkips(c) == [c EXCEPT !.i = @ + 1, !.skipped = @ \cup {c.i}]

\* One call of copy_build_files on a payload of n files, with the
\* destination directories of had already there.
CpInit ==
    /\ CallInit
    /\ \E n \in 1..MaxFiles, had \in SUBSET CpDirs :
         call = [pos |-> "walk", n |-> n, had |-> had, dirs |-> had, i |-> 1,
                 copied |-> {}, skipped |-> {}, why |-> "none", result |-> "none"]

\* The os.walk loop that lists the files; an exception there returns False.
CpWalk ==
    /\ call # <<>> /\ call.pos = "walk"
    /\ \/ CallStep([call EXCEPT !.pos = "loop"])
       \/ CallStep([call EXCEPT !.pos = "done", !.why = "walk", !.result = "False"])

\* One pass of the copy loop: cancellation returns False; the destination
\* directory is made when it is not there, and an error making it returns
\* False; shutil.copy2 writes the file or raises.
CpFile ==
    /\ call # <<>> /\ call.pos = "loop" /\ call.i <= call.n
    /\ \E r \in {"copy", "copy_error", "cancel", "makedirs_error"} :
         LET d == DirOf(call.i)
             made == [call EXCEPT !.dirs = @ \cup {d}]
         IN  CASE r = "cancel" ->
                    CallStep([call EXCEPT !.pos = "done", !.why = "cancel", !.result = "False"])
               [] r = "makedirs_error" ->
                    /\ d \notin call.dirs
                    /\ CallStep([call EXCEPT !.pos = "done", !.why = "makedirs",
                                             !.result = "False"])
               [] r = "copy_error" -> CallStep(CopyErrorSkips(made))
               [] r = "copy" ->
                    CallStep([made EXCEPT !.i = @ + 1, !.copied = @ \cup {call.i}])

\* return True
CpReturn ==
    /\ call # <<>> /\ call.pos = "loop" /\ call.i > call.n
    /\ CallStep([call EXCEPT !.pos = "done", !.result = "True"])

CpNext == CpWalk \/ CpFile \/ CpReturn

CpSpec == CpInit /\ [][CpNext]_vars

\* C30: every copied file lies in a directory that exists; the call returns
\* False only when cancelled or when listing the source or making a
\* directory failed, and otherwise returns True with every file copied but
\* those whose copy raised.
C30_CopySkipsFailures ==
    /\ \A k \in call.copied : DirOf(k) \in call.dirs
    /\ call.pos = "done"
       => /\ call.result = "False" <=> call.why \in {"cancel", "walk", "makedirs"}
          /\ call.result = "True" => call.copied = (1..call.n) \ call.skipped
C30_Witness ==
    /\ call # <<>> /\ call.pos = "done" /\ call.result = "True"
    /\ call.n = MaxFiles /\ call.skipped = {1} /\ call.copied = 2..MaxFiles
    /\ call.had = {} /\ call.dirs = CpDirs

\* ------------------------------------------------- the loop's own thread
MaxPasses == 2    \* iterations of main_service_loop followed here

\* An operation done by a thread: its name, what it touches, who ran it.
Op(name, kind, by) == <<name, kind, by>>
\* periodic_maintenance, when due: cleanup_old_backups of the wizard (when
\* there is one), cleanup_temp_files and system_health_check, all called
\* directly by the thread that called periodic_maintenance.
MaintenanceOps(wizard, by) ==
    (IF wizard THEN {Op("cleanup_old_backups", "filesystem", by)} ELSE {})
    \cup {Op("cleanup_temp_files", "filesystem", by),
          Op("system_health_check", "filesystem", by)}

\* main_service_loop after the startup thread was started: the wizard is
\* there or not, time.time() is far past both intervals.
TkInit ==
    /\ CallInit
    /\ \E wizard, auto \in BOOLEAN :
         call = [pos |-> "update", clock |-> StartTime, passes |-> 0,
                 wizard |-> wizard, auto_updates |-> auto, workers |-> 0,
                 last_update_check |-> 0, last_maintenance |-> 0, ops |-> {}]

\* periodic_update_check of the service, on the loop's thread: when the
\* interval has passed and the wizard has auto_updates, a daemon thread is
\* started for wizard.periodic_update_check and the time is noted.
TkUpdateCheck ==
    /\ call # <<>> /\ call.pos = "update"
    /\ LET spawn == /\ call.clock - call.last_update_check >= update_check_interval
                    /\ call.wizard /\ call.auto_updates
       IN  /\ spawn => call.workers < MaxThreads
           /\ CallStep([call EXCEPT !.pos = "maintenance",
                                    !.workers = IF spawn THEN @ + 1 ELSE @,
                                    !.last_update_check = IF spawn THEN call.clock ELSE @])

\* periodic_maintenance, on the loop's thread.
TkMaintenance ==
    /\ call # <<>> /\ call.pos = "maintenance"
    /\ IF call.clock - call.last_maintenance >= maintenance_interval
       THEN CallStep([call EXCEPT !.pos = "wait",
                                  !.ops = @ \cup MaintenanceOps(call.wizard, "loop"),
                                  !.last_maintenance = call.clock])
       ELSE CallStep([call EXCEPT !.pos = "wait"])

\* memory_cleanup (gc.collect) and self.monitor.waitForAbort(30): the wait
\* ends with the abort or after the tick, or later when the host slept.
TkWait ==
    /\ call # <<>> /\ call.pos = "wait"
    /\ \/ CallStep([call EXCEPT !.pos = "ended",
                                !.ops = @ \cup {Op("waitForAbort", "wait", "loop")}])
       \/ /\ call.passes < MaxPasses
          /\ \E d \in Elapsed \cup {maintenance_interval} :
               CallStep([call EXCEPT !.pos = "update", !.passes = @ + 1,
                                     !.clock = @ + d,
                                     !.ops = @ \cup {Op("waitForAbort", "wait", "loop")}])

\* The thread started by periodic_update_check: wizard.periodic_update_check,
\* which fetches from the repository.
TkWorker ==
    /\ call # <<>> /\ call.workers > 0
    /\ CallStep([call EXCEPT !.workers = @ - 1,
                             !.ops = @ \cup {Op("periodic_update_check", "network", "worker")}])

TkNext == TkUpdateCheck \/ TkMaintenance \/ TkWait \/ TkWorker

TkSpec == TkInit /\ [][TkNext]_vars

\* C31: the loop's own thread does nothing but wait on the abort signal:
\* every network and filesystem operation is run by a spawned worker.
C31_LoopOnlyWaits ==
    \A o \in call.ops : o[3] = "loop" => o[2] = "wait"

\* ------------------------------------------- the auto-update setting's copies
MaxChecks == 2    \* network update checks followed in one service process

\* self.settings['last_update_check'] = current_time; self.save_settings():
\* json.dump of the instance's whole settings dictionary over the file.
save_settings_after_check(file, mine, t) == [mine EXCEPT !.last_update_check = t]

\* A service process starts over a settings file; its wizard does not exist
\* yet, so it holds no copy of the settings (<<>>).
AuInit ==
    /\ CallInit
    /\ \E auto \in BOOLEAN, info \in {DefaultInfo, save_build_info(DefaultInfo, NameA)} :
         call = [file |-> [auto_updates |-> auto, last_update_check |-> 0],
                 mem |-> <<>>, start |-> "init", upd |-> "none", per |-> 0,
                 checks |-> 0, installs |-> 0, info |-> info]

\* initialize_wizard: CutCableWizard() runs load_settings.
AuInitWizard ==
    /\ call # <<>> /\ call.start = "init"
    /\ CallStep([call EXCEPT !.mem = <<call.file>>, !.start = "gate"])

\* startup_tasks: if self.wizard.settings.get('auto_updates', True):
\* self.startup_update_check(), which starts the update thread.
AuStartupGate ==
    /\ call # <<>> /\ call.start = "gate"
    /\ CallStep([call EXCEPT !.start = "done",
                             !.upd = IF call.mem[1].auto_updates THEN "sleep" ELSE @])

\* The update thread: wizard.startup_update_check returns at once without
\* auto_updates in the instance's settings; else check_wizard_update, and
\* check_build_updates and install_build of what it returns.
AuStartupThread ==
    /\ call # <<>> /\ call.upd = "sleep"
    /\ IF ~call.mem[1].auto_updates THEN CallStep([call EXCEPT !.upd = "done"])
       ELSE /\ call.checks < MaxChecks
            /\ \E fetched \in BOOLEAN :
                 LET build == check_build_updates(call.info, <<NameLatest>>, fetched)
                 IN  CallStep([call EXCEPT !.upd = "done", !.checks = @ + 1,
                                           !.installs = IF build # NoneV THEN @ + 1 ELSE @])

\* periodic_update_check of the service when the interval has passed: with
\* auto_updates in the wizard's settings a thread is started.
AuTick ==
    /\ call # <<>> /\ call.start = "done" /\ call.per < MaxThreads
    /\ call.mem[1].auto_updates
    /\ CallStep([call EXCEPT !.per = @ + 1])

\* The started thread, wizard.periodic_update_check: nothing without
\* auto_updates or within a day of last_update_check; else the time is put
\* into the settings, the settings are saved, and the checks are made (a
\* build update is only notified).
AuPeriodicThread ==
    /\ call # <<>> /\ call.per > 0
    /\ \E within_day \in BOOLEAN :
         IF ~call.mem[1].auto_updates \/ within_day
         THEN CallStep([call EXCEPT !.per = @ - 1])
         ELSE /\ call.checks < MaxChecks
              /\ LET written == save_settings_after_check(call.file, call.mem[1],
                                                          call.checks + 1)
                 IN  CallStep([call EXCEPT !.per = @ - 1, !.checks = @ + 1,
                                           !.mem = <<written>>, !.file = written])

\* onSettingsChanged -> handle_settings_change: the wizard's settings are
\* loaded again from the file.
AuSettingsChanged ==
    /\ call # <<>> /\ call.mem # <<>> /\ call.mem[1] # call.file
    /\ CallStep([call EXCEPT !.mem = <<call.file>>])

\* show_update_settings in the wizard instance the user opened: that
\* instance loaded the file, sets auto_updates and saves.
AuUiToggle ==
    /\ call # <<>>
    /\ \E v \in BOOLEAN :
         /\ v # call.file.auto_updates
         /\ CallStep([call EXCEPT !.file = [@ EXCEPT !.auto_updates = v]])

AuNext ==
    \/ AuInitWizard \/ AuStartupGate \/ AuStartupThread \/ AuTick \/ AuPeriodicThread
    \/ AuSettingsChanged \/ AuUiToggle

AuSpec == AuInit /\ [][AuNext]_vars

\* C32: a network update check or an install_build by the scheduler happens
\* only while the stored auto-update setting is enabled.
C32_NoAutoWhenDisabled ==
    [][call'.checks # call.checks \/ call'.installs # call.installs
        => call.file.auto_updates]_vars

\* A step in which the scheduler's periodic check writes the settings file.
AuSchedulerWrites == call'.per < call.per /\ call'.checks > call.checks

\* C39: the write of the scheduler's periodic check changes the
\* last_update_check of the stored settings and nothing else.
C39_OnlyTimestampWritten ==
    [][AuSchedulerWrites
        => call'.file = [call.file EXCEPT !.last_update_check = call'.file.last_update_check]]_vars

\* ------------------------------------------------ installs across restarts
\* The user installs a build of the catalog from the build menu; the catalog
\* stays as it is over the restarts that follow.
RiInit ==
    /\ CallInit
    /\ \E catalog \in UpCatalogs, auto \in BOOLEAN :
         call = [pos |-> "menu", catalog |-> catalog, auto_updates |-> auto,
                 info |-> DefaultInfo, marker |-> NoneV, verified |-> FALSE,
                 boots |-> 0, checks |-> 0, reinstalls |-> 0]

\* install_build(selected_build) up to the restart: save_build_info, the
\* marker, RestartApp.
RiInstall ==
    /\ call # <<>> /\ call.pos = "menu"
    /\ \E i \in 1..Len(call.catalog) :
         CallStep([call EXCEPT !.pos = "boot",
                               !.info = save_build_info(@, call.catalog[i]),
                               !.marker = call.catalog[i]])

\* The service starts: check_pending_installation runs complete_installation
\* on a marker, which on success saves the build info again and verifies,
\* and on failure only removes the marker.
RiBoot ==
    /\ call # <<>> /\ call.pos = "boot"
    /\ IF call.marker = NoneV THEN CallStep([call EXCEPT !.pos = "check"])
       ELSE \E copied \in BOOLEAN :
              CallStep([call EXCEPT
                  !.pos = "check", !.marker = NoneV,
                  !.verified = @ \/ copied,
                  !.info = IF copied THEN save_build_info(@, call.marker) ELSE @])

\* The startup update check of this process: with auto_updates,
\* check_build_updates over the catalog and install_build of what it
\* returns, which restarts the host.
RiStartupCheck ==
    /\ call # <<>> /\ call.pos = "check"
    /\ IF ~call.auto_updates THEN CallStep([call EXCEPT !.pos = "idle"])
       ELSE \E fetched \in BOOLEAN :
              LET build == check_build_updates(call.info, call.catalog, fetched)
                  counted == [call EXCEPT !.checks = IF call.verified /\ fetched
                                                     THEN @ + 1 ELSE @]
              IN  IF build = NoneV THEN CallStep([counted EXCEPT !.pos = "idle"])
                  ELSE CallStep([counted EXCEPT !.pos = "idle",
                                                !.info = save_build_info(@, build),
                                                !.marker = build,
                                                !.reinstalls = @ + 1])

\* The host is restarted (by the user, or as the install asked).
RiRestart ==
    /\ call # <<>> /\ call.pos = "idle" /\ call.boots < MaxBoots
    /\ CallStep([call EXCEPT !.pos = "boot", !.boots = @ + 1])

RiNext == RiInstall \/ RiBoot \/ RiStartupCheck \/ RiRestart

RiSpec == RiInit /\ [][RiNext]_vars

\* C33: once the install is verified the stored version is the one read from
\* the stored build name, and no startup check over the unchanged catalog
\* installs anything again.
C33_NoReinstallLoop ==
    /\ call.verified
       => call.info.version = extract_version_from_name(call.info.installed_build)
    /\ call.reinstalls = 0
C33_Witness ==
    /\ call # <<>> /\ call.verified /\ call.auto_updates
    /\ call.boots = MaxBoots /\ call.checks = MaxBoots + 1 /\ call.pos = "idle"
    /\ call.info.installed_build = NameLatest /\ call.reinstalls = 0

\* ------------------------------------------------- admin builds in the menu
max_attempts == 3

\* verify_admin_password(password) over what fetch_builds_list returned.
verify_admin_password(password, builds_data) ==
    /\ builds_data.fetched /\ builds_data.has_hash
    /\ password # NoneV
    /\ Sha256Hex(password) = builds_data.hash

\* What the catalog fetch inside verify_admin_password may return while the
\* published hash is the digest of "a".
AdCatalogs ==
    {[fetched |-> FALSE, has_hash |-> FALSE, hash |-> NoneV],
     [fetched |-> TRUE, has_hash |-> TRUE, hash |-> Sha256Hex(<<"a">>)]}

\* Variant: the menu goes on to the confirmation whatever the authentication
\* returned.
GateOpen(admin, authenticated) == TRUE
\* if selected_build.get('admin', False):
\*     if not self.handle_admin_authentication(): return
AdminGate(admin, authenticated) == ~admin \/ authenticated

\* show_build_menu after the user chose an entry, flagged admin or not.
AdInit ==
    /\ CallInit
    /\ \E admin \in BOOLEAN :
         call = [pos |-> "selected", admin |-> admin, attempts |-> 0, typed |-> <<>>,
                 accepted |-> FALSE, cancelled |-> FALSE, auth |-> "none",
                 installed |-> FALSE]

\* The selection: an admin build goes to handle_admin_authentication.
AdSelect ==
    /\ call # <<>> /\ call.pos = "selected"
    /\ CallStep([call EXCEPT !.pos = IF call.admin THEN "auth" ELSE "gate"])

\* One pass of the loop of handle_admin_authentication: the input dialog; an
\* empty input returns False; an accepted password returns True; else the
\* attempt is counted, and the loop ends with False at max_attempts.
AdAttempt ==
    /\ call # <<>> /\ call.pos = "auth" /\ call.attempts < max_attempts
    /\ \E password \in Candidates, builds_data \in AdCatalogs :
         LET seen == [call EXCEPT !.typed = Append(@, password)]
         IN  IF password = NoneV
             THEN CallStep([seen EXCEPT !.pos = "gate", !.cancelled = TRUE, !.auth = "False"])
             ELSE IF verify_admin_password(password, builds_data)
             THEN CallStep([seen EXCEPT !.pos = "gate", !.accepted = TRUE, !.auth = "True"])
             ELSE CallStep([seen EXCEPT
                     !.attempts = @ + 1,
                     !.pos = IF call.attempts + 1 < max_attempts THEN "auth" ELSE "gate",
                     !.auth = IF call.attempts + 1 < max_attempts THEN @ ELSE "False"])

\* Back in show_build_menu: return without the authentication, else the
\* yesno "Confirm Installation" and install_build on yes.
AdConfirm ==
    /\ call # <<>> /\ call.pos = "gate"
    /\ IF ~AdminGate(call.admin, call.auth = "True")
       THEN CallStep([call EXCEPT !.pos = "done"])
       ELSE \E yes \in BOOLEAN :
              CallStep([call EXCEPT !.pos = "done", !.installed = yes])

AdNext == AdSelect \/ AdAttempt \/ AdConfirm

AdSpec == AdInit /\ [][AdNext]_vars

\* C34: an admin build is installed from the menu only after a candidate was
\* accepted, within max_attempts inputs; after max_attempts rejected
\* candidates or an empty input the authentication returned False and
\* install_build is not called.
C34_AdminNeedsPassword ==
    /\ call.attempts <= max_attempts /\ Len(call.typed) <= max_attempts
    /\ call.installed /\ call.admin
       => /\ call.accepted
          /\ call.typed[Len(call.typed)] = <<"a">>
    /\ call.pos \in {"gate", "done"} /\ (call.attempts = max_attempts \/ call.cancelled)
       => call.auth = "False" /\ ~call.installed
C34_Witness ==
    /\ call # <<>> /\ call.pos = "done" /\ call.admin /\ call.installed
    /\ call.attempts = max_attempts - 1 /\ Len(call.typed) = max_attempts

\* --------------------------------------------- the marker's snapshot
\* A wizard session with no marker and no snapshot at second 1.
MkInit ==
    /\ CallInit
    /\ call = [clock |-> 1, backups |-> [t \in Stamps |-> NoSnapshot],
               marker |-> <<>>, restart |-> FALSE, consumed |-> 0]

\* install_build from the build menu, which the menu loop offers again
\* after every return: create_backup (which prunes when it returns a name);
\* without a backup the user continues or not; the download or the
\* extraction fails, or the marker is written with the backup's name and
\* RestartApp is called.
MkInstall ==
    /\ call # <<>>
    /\ \E lv \in PruneLives, cancelAt \in {1, Len(ItemOrder) + 1},
          continue \in BOOLEAN, staged \in BOOLEAN :
         LET r == create_backup(call.backups, lv, call.clock, cancelAt)
             backed == [call EXCEPT !.backups = r.backups]
         IN  IF (r.name = NoneV /\ ~continue) \/ ~staged THEN CallStep(backed)
             ELSE CallStep([backed EXCEPT !.marker = <<[backup_name |-> r.name]>>,
                                          !.restart = TRUE])

\* periodic_maintenance of the service: self.wizard.cleanup_old_backups()
MkMaintenance ==
    /\ call # <<>>
    /\ call.backups # cleanup_old_backups(call.backups, keep_count)
    /\ CallStep([call EXCEPT !.backups = cleanup_old_backups(@, keep_count)])

\* The host has restarted: complete_installation, from the service or from
\* show_main_menu, uses the marker and removes it.
MkConsume ==
    /\ call # <<>> /\ call.restart /\ call.marker # <<>>
    /\ CallStep([call EXCEPT !.marker = <<>>, !.restart = FALSE,
                             !.consumed = IF @ < MaxBoots THEN @ + 1 ELSE @])

\* A second passes.
MkSecond ==
    /\ call # <<>> /\ call.clock < MaxStamp
    /\ CallStep([call EXCEPT !.clock = @ + 1])

MkNext == MkInstall \/ MkMaintenance \/ MkConsume \/ MkSecond

MkSpec == MkInit /\ [][MkNext]_vars

\* C35: while the marker is there and records a backup, the snapshot of
\* that name is in the backup directory.
C35_MarkerSnapshotKept ==
    call.marker # <<>> /\ call.marker[1].backup_name # NoneV
    => call.backups[call.marker[1].backup_name[1]].exists

\* ------------------------------------------------ one marker, two readers
\* Thread p has copied payload files to the live tree, or run the rollback,
\* for the marker it read.
MarkerApplied(p) ==
    /\ loc[p].data.ok
    /\ loc[p].did \cap {"copy", "restore_ok", "restore_failed"} # {}

\* C37: the copy to the live tree and the rollback for one marker are done
\* by one thread only: two threads that applied a marker applied different
\* ones.
C37_MarkerAppliedOnce ==
    \A p, q \in Threads :
        p # q /\ MarkerApplied(p) /\ MarkerApplied(q) => loc[p].data # loc[q].data

\* ------------------------------------------------ temp cleanup and installs
\* The archives and payload directories (by the second in their names) that
\* a running install_build has made, or that the marker names.
InFlightZips ==
    ({loc[p].temp_zip : p \in {q \in Threads : pc[q] \in IbPcs}}
     \cup (IF markerFile # <<>> /\ markerFile[1].ok THEN {markerFile[1].temp_zip} ELSE {}))
    \cap Times
InFlightDirs ==
    ({loc[p].temp_extract : p \in {q \in Threads : pc[q] \in IbPcs}}
     \cup (IF markerFile # <<>> /\ markerFile[1].ok THEN {markerFile[1].temp_extract} ELSE {}))
    \cap Times
\* A step of the service's cleanup_temp_files or of clean_temp_files_manual.
TempCleanupStep ==
    \/ Steps("svc", {"sv_cleanup"})
    \/ /\ pc["ui"] = "menu" /\ pc' = pc /\ boots' = boots
       /\ <<tempZip, tempExtract>>' # <<tempZip, tempExtract>>

\* C38: a temp cleanup of the service or of the maintenance menu leaves the
\* archive and the payload of an install in flight as they are.
C38_CleanupSparesInFlight ==
    [][TempCleanupStep
        => /\ \A t \in InFlightZips : tempZip'[t] = tempZip[t]
           /\ \A t \in InFlightDirs : tempExtract'[t] = tempExtract[t]]_vars

====
